---- MODULE Spec2Model ----
(***************************************************************************)
(* SimpleDB: an in-memory SQL engine over columnar record batches.         *)
(* The model follows SimpleDB::run_sql (src/src/db.rs): a parsed statement *)
(* is lowered to a logical plan against the catalog, lowered to a physical *)
(* plan, executed twice, and, for a mutating statement, the result of the  *)
(* first execution replaces the catalog entry.                             *)
(***************************************************************************)
EXTENDS Integers, Sequences, FiniteSets, TLC

VARIABLES
    catalog,   \* Catalog.tables: table name -> CsvTable
    call,      \* the last run_sql call: statement, catalog before it, result
    opIn,      \* operator-level checks: the input batches of the operator
    opOut      \* operator-level checks: what the operator returned

vars == <<catalog, call, opIn, opOut>>

(***************************************************************************)
(* Bounds of the model.                                                    *)
(***************************************************************************)
\* The driver is followed for this many run_sql calls.
MaxCalls == 2
\* An operator's input: at most MaxOpRows rows, split into at most MaxOpBatches batches.
MaxOpBatches == 2
MaxOpRows == 3

(***************************************************************************)
(* Values, arrays, record batches.                                         *)
(***************************************************************************)
\* One slot of an Arrow array: a validity bit and the payload.
IntV(n) == [null |-> FALSE, i |-> n, s |-> ""]
StrV(x) == [null |-> FALSE, i |-> 0, s |-> x]
NullV == [null |-> TRUE, i |-> 0, s |-> ""]

\* An Arrow array: its data type and its slots.
Array(dt, vals) == [dt |-> dt, vals |-> vals]

\* Result<T>: Ok(value), Err(error kind), or a panic of the thread.
Ok(v) == [tag |-> "Ok", err |-> "", val |-> v]
Err(e) == [tag |-> "Err", err |-> e, val |-> <<>>]
Panic == [tag |-> "Panic", err |-> "", val |-> <<>>]
IsOk(r) == r.tag = "Ok"

\* The ? operator: the value of an Ok goes on, anything else is returned.
Try(r, F(_)) == IF IsOk(r) THEN F(r.val) ELSE r

RECURSIVE SeqSum(_)
SeqSum(s) == IF s = <<>> THEN 0 ELSE Head(s) + SeqSum(Tail(s))

RECURSIVE Flatten(_)
Flatten(ss) == IF ss = <<>> THEN <<>> ELSE Head(ss) \o Flatten(Tail(ss))

Range(s) == {s[i] : i \in DOMAIN s}

\* NaiveField: optional qualifier (<<>> is None, <<q>> is Some(q)) and the Arrow field.
NaiveField(q, name, dt) == [dt |-> dt, name |-> name, qualifier |-> q]

\* NaiveField::qualified_name
qualified_name(f) ==
    IF f.qualifier # <<>> THEN f.qualifier[1] \o "." \o f.name ELSE f.name

\* impl From<NaiveSchema> for Schema: a qualified field is renamed to its
\* qualified name, an unqualified one keeps its Arrow field.
ArrowSchema(schema) ==
    [i \in DOMAIN schema |->
        [dt |-> schema[i].dt,
         name |-> IF schema[i].qualifier # <<>> THEN qualified_name(schema[i])
                  ELSE schema[i].name]]

\* RecordBatch::try_new (arrow): the number of columns, their data types and
\* their lengths are validated against the schema.
RecordBatchTryNew(aschema, columns) ==
    IF Len(columns) # Len(aschema) THEN Err("ArrowError")
    ELSE IF \E i \in DOMAIN columns : columns[i].dt # aschema[i].dt THEN Err("ArrowError")
    ELSE IF \E i, j \in DOMAIN columns : Len(columns[i].vals) # Len(columns[j].vals)
         THEN Err("ArrowError")
    ELSE Ok([schema |-> aschema, columns |-> columns])

\* RecordBatch::num_rows
num_rows(batch) == IF batch.columns = <<>> THEN 0 ELSE Len(batch.columns[1].vals)

\* The rows of a batch, each the tuple of its slots.
BatchRows(batch) ==
    [r \in 1..num_rows(batch) |-> [c \in DOMAIN batch.columns |-> batch.columns[c].vals[r]]]

\* The rows of a sequence of batches, in order.
RECURSIVE AllRows(_)
AllRows(batches) ==
    IF batches = <<>> THEN <<>> ELSE BatchRows(Head(batches)) \o AllRows(Tail(batches))

(***************************************************************************)
(* Table sources and the catalog.                                          *)
(***************************************************************************)
CsvTable(schema, batches) == [schema |-> schema, batches |-> batches]

\* TableSource::scan for CsvTable: the projection is ignored.
scan(table, projection) == Ok(table.batches)

\* Catalog::get_table
get_table(cat, table) ==
    IF table \in DOMAIN cat THEN Ok(cat[table]) ELSE Err("NoSuchTable")

\* Catalog::remove_table
remove_table(cat, table_name) == [n \in DOMAIN cat \ {table_name} |-> cat[n]]

\* Catalog::add_new_table
add_new_table(cat, table, source) ==
    [n \in DOMAIN cat \cup {table} |-> IF n = table THEN source ELSE cat[n]]

\* The file data/test_data.csv, read as one batch (batch_size 1_000_000).
TestDataCsv ==
    [schema |-> <<[dt |-> "Int64", name |-> "id"], [dt |-> "Utf8", name |-> "name"],
                  [dt |-> "Int64", name |-> "age"]>>,
     columns |-> <<Array("Int64", <<IntV(1), IntV(2), IntV(3)>>),
                   Array("Utf8", <<StrV("a"), StrV("b"), StrV("a")>>),
                   Array("Int64", <<IntV(10), IntV(20), IntV(30)>>)>>]

\* NaiveSchema::from_unqualified
from_unqualified(aschema) ==
    [i \in DOMAIN aschema |-> NaiveField(<<>>, aschema[i].name, aschema[i].dt)]

\* CsvTable::try_create: the first field of the schema is qualified with the
\* table name; the batches keep the schema the reader inferred.
try_create(table_name, file) ==
    LET schema == from_unqualified(file.schema)
    IN CsvTable([schema EXCEPT ![1].qualifier = <<table_name>>], <<file>>)

\* Catalog::add_csv_table
add_csv_table(cat, table, file) == add_new_table(cat, table, try_create(table, file))

(***************************************************************************)
(* Identifiers.                                                            *)
(***************************************************************************)
\* sqlparser Ident: the text and whether it was quoted.
Ident(value, quoted) == [value |-> value, quoted |-> quoted]

\* str::to_ascii_lowercase on the identifiers of the model.
to_ascii_lowercase(s) ==
    CASE s = "T1" -> "t1"
      [] s = "ID" -> "id"
      [] OTHER -> s

\* normalize_ident: lower-case unless quoted.
normalize_ident(id) == IF id.quoted THEN id.value ELSE to_ascii_lowercase(id.value)

RECURSIVE JoinDot(_)
JoinDot(parts) ==
    IF Len(parts) = 1 THEN parts[1] ELSE parts[1] \o "." \o JoinDot(Tail(parts))

\* SQLPlanner::normalize_sql_object_name
normalize_sql_object_name(name) == JoinDot([i \in DOMAIN name |-> normalize_ident(name[i])])

\* SimpleDB::name_convert: the identifiers' text as written, joined with "."
name_convert(table_name) == JoinDot([i \in DOMAIN table_name |-> table_name[i].value])

(***************************************************************************)
(* Parsed statements (the AST the parser hands to the planner).            *)
(***************************************************************************)
\* sqlparser Expr
Identifier(id) == [x |-> "Identifier", id |-> id]
Number(n) == [n |-> n, s |-> "", x |-> "Value", k |-> "Number"]
SingleQuotedString(s) == [n |-> 0, s |-> s, x |-> "Value", k |-> "SingleQuotedString"]
\* A compound identifier such as p.name: its parts in order.
CompoundIdentifier(ids) == [x |-> "CompoundIdentifier", ids |-> ids]
Wildcard == [x |-> "Wildcard"]
NullValue == [n |-> 0, s |-> "", x |-> "Value", k |-> "Null"]
BinaryOp(l, op, r) == [x |-> "BinaryOp", op |-> op, left |-> l, right |-> r]
Function(name, arg) == [x |-> "Function", name |-> name, arg |-> arg]

\* sqlparser Statement, one record shape for every kind.
Statement(kind, names, columns, source, assignments, selection, select) ==
    [columns |-> columns, source |-> source, kind |-> kind, names |-> names,
     assignments |-> assignments, selection |-> selection, select |-> select]

\* sqlparser Query: the body's projection and GROUP BY, OFFSET and LIMIT
\* (an Option each: no clause is <<>>). The tables of FROM are the names of
\* the statement; aliases holds the alias of each (an Option), or is <<>>
\* when none is written.
Query(projection, group_by, offset, limit) ==
    [projection |-> projection, group_by |-> group_by, offset |-> offset, limit |-> limit,
     aliases |-> <<>>]

NoSelect == Query(<<>>, <<>>, <<>>, <<>>)

(***************************************************************************)
(* Logical expressions and their lowering.                                 *)
(***************************************************************************)
\* ScalarValue
ScalarInt64(n) == [dt |-> "Int64", v |-> IntV(n)]
ScalarUtf8(s) == [dt |-> "Utf8", v |-> StrV(s)]
ScalarFloat64(n) == [dt |-> "Float64", v |-> IntV(n)]
ScalarUInt64(n) == [dt |-> "UInt64", v |-> IntV(n)]
ScalarNull == [dt |-> "Null", v |-> NullV]

\* SQLPlanner::sql_to_expr. On the expressions of the model it never fails
\* (a compound identifier has two parts); the parts of a compound identifier
\* are taken as written.
RECURSIVE sql_to_expr(_)
sql_to_expr(sql) ==
    CASE sql.x = "Identifier" ->
            [e |-> "Column", name |-> normalize_ident(sql.id), table |-> <<>>]
      [] sql.x = "CompoundIdentifier" ->
            [e |-> "Column", name |-> sql.ids[2].value, table |-> <<sql.ids[1].value>>]
      [] sql.x = "Value" /\ sql.k = "Number" -> [e |-> "Literal", value |-> ScalarInt64(sql.n)]
      [] sql.x = "Value" /\ sql.k = "SingleQuotedString" ->
            [e |-> "Literal", value |-> ScalarUtf8(sql.s)]
      [] sql.x = "Value" /\ sql.k = "Null" -> [e |-> "Literal", value |-> ScalarNull]
      [] sql.x = "BinaryOp" ->
            [e |-> "BinaryExpr", op |-> sql.op, left |-> sql_to_expr(sql.left),
             right |-> sql_to_expr(sql.right)]
      [] sql.x = "Function" ->
            [e |-> "AggregateFunction", fun |-> sql.name, args |-> sql_to_expr(sql.arg)]

\* QueryPlanner::create_physical_expression: a column is resolved to the index
\* of the first field of the input schema with its (unqualified) name.
RECURSIVE create_physical_expression(_, _)
create_physical_expression(expr, schema) ==
    CASE expr.e = "Column" ->
            IF \E i \in DOMAIN schema : schema[i].name = expr.name
            THEN Ok([p |-> "Column",
                     idx |-> CHOOSE i \in DOMAIN schema :
                                /\ schema[i].name = expr.name
                                /\ \A j \in 1..(i - 1) : schema[j].name # expr.name])
            ELSE Err("ColumnNotExists")
      [] expr.e = "Literal" -> Ok([p |-> "Literal", literal |-> expr.value])
      [] expr.e = "BinaryExpr" ->
            LET l == create_physical_expression(expr.left, schema)
                r == create_physical_expression(expr.right, schema)
            IN IF ~IsOk(l) THEN l
               ELSE IF ~IsOk(r) THEN r
               ELSE Ok([op |-> expr.op, left |-> l.val, right |-> r.val, p |-> "Binary"])
      [] OTHER -> Panic   \* todo!() for Alias, AggregateFunction, Wildcard

\* ScalarValue::into_array
into_array(scalar, size) == Array(scalar.dt, [i \in 1..size |-> scalar.v])

BoolV(b) == IntV(IF b THEN 1 ELSE 0)

\* One slot of a comparison: a null operand gives a null result.
CompareSlot(op, l, r, dt) ==
    IF l.null \/ r.null THEN NullV
    ELSE CASE op = "Eq" -> BoolV(l = r)
           [] op = "Gt" -> BoolV(IF dt = "Utf8" THEN FALSE ELSE l.i > r.i)
           [] op = "Lt" -> BoolV(IF dt = "Utf8" THEN FALSE ELSE l.i < r.i)

\* PhysicalExpr::evaluate followed by ColumnValue::into_array.
\* Column: batch.column(idx), which panics when idx is out of range.
\* Literal: the scalar broadcast to the batch's length.
\* Binary: element-wise, over operands of one data type.
RECURSIVE evaluate(_, _)
evaluate(pexpr, batch) ==
    CASE pexpr.p = "Column" ->
            IF pexpr.idx \in DOMAIN batch.columns THEN Ok(batch.columns[pexpr.idx])
            ELSE Panic
      [] pexpr.p = "Literal" -> Ok(into_array(pexpr.literal, num_rows(batch)))
      [] pexpr.p = "Binary" ->
            LET l == evaluate(pexpr.left, batch)
                r == evaluate(pexpr.right, batch)
            IN IF ~IsOk(l) THEN l
               ELSE IF ~IsOk(r) THEN r
               ELSE IF l.val.dt # r.val.dt THEN Err("NotSupported")
               ELSE Ok(Array("Boolean",
                        [i \in DOMAIN l.val.vals |->
                            CompareSlot(pexpr.op, l.val.vals[i], r.val.vals[i], l.val.dt)]))

\* A loop that skips Some(false) only: a null predicate slot counts as a match.
NotFalsePositions(predicate) ==
    {i \in DOMAIN predicate.vals : predicate.vals[i].null \/ predicate.vals[i].i = 1}

\* The positions of a Boolean array that hold Some(true).
TruePositions(predicate) ==
    {i \in DOMAIN predicate.vals : ~predicate.vals[i].null /\ predicate.vals[i].i = 1}

(***************************************************************************)
(* Logical plans (src/src/logical_plan/plan.rs) and SQLPlanner.            *)
(***************************************************************************)
TableScan(source) == [projection |-> <<>>, source |-> source, op |-> "TableScan"]

\* LogicalPlan::schema
RECURSIVE LogicalSchema(_)
LogicalSchema(plan) ==
    CASE plan.op = "TableScan" -> plan.source.schema
      [] plan.op \in {"Projection", "Aggregate", "CreateTable", "Join", "CrossJoin"} ->
            plan.schema
      [] OTHER -> LogicalSchema(plan.input)

\* SQLPlanner::parse_table_new (and parse_table): the table is looked up under
\* the normalized name.
parse_table_new(cat, name) ==
    LET source == get_table(cat, normalize_sql_object_name(name))
    IN IF IsOk(source) THEN Ok(TableScan(source.val)) ELSE source

\* SQLPlanner::columns_to_naive_schema: the column name is taken as written.
columns_to_naive_schema(columns) ==
    [i \in DOMAIN columns |->
        NaiveField(<<>>, columns[i].name.value,
            CASE columns[i].data_type = "Boolean" -> "Boolean"
              [] columns[i].data_type = "Int" -> "Int64"
              [] columns[i].data_type = "Varchar" -> "Utf8"
              [] columns[i].data_type = "Float" -> "Float64"
              [] OTHER -> "Utf8")]

\* SQLPlanner::plan_update_assignments
plan_update_assignments(selection, assignments, plan) ==
    IF selection # <<>>
    THEN Ok([op |-> "Update", assignments |-> assignments, input |-> plan,
             conditions |-> sql_to_expr(selection[1])])
    ELSE Err("NotImplemented")

\* SQLPlanner::plan_insert
plan_insert(source, plan) == Ok([source |-> source, op |-> "Insert", input |-> plan])

\* SQLPlanner::plan_delete
plan_delete(cat, table_name, selection, plan) ==
    LET source == get_table(cat, normalize_sql_object_name(table_name))
    IN IF ~IsOk(source) THEN source
       ELSE IF selection # <<>>
       THEN Ok([source |-> source.val, op |-> "Delete", input |-> plan,
                conditions |-> sql_to_expr(selection[1])])
       ELSE Err("NotImplemented")

(***************************************************************************)
(* Physical operators of the mutating statements.                          *)
(***************************************************************************)
\* InsertPlan::value_to_column_data: a one-slot array typed by the literal.
value_to_column_data(expr) ==
    IF expr.x # "Value" THEN Panic   \* todo!()
    ELSE CASE expr.k = "Number" -> Ok(Array("Int64", <<IntV(expr.n)>>))
           [] expr.k = "SingleQuotedString" -> Ok(Array("Utf8", <<StrV(expr.s)>>))
           [] expr.k = "Null" -> Ok(Array("Utf8", <<NullV>>))

\* InsertPlan::parse_values: one batch per VALUES tuple, under the Arrow form
\* of the input's schema; the first failure is returned.
RECURSIVE parse_values(_, _)
parse_values(values, input_schema) ==
    IF values = <<>> THEN Ok(<<>>)
    ELSE LET value_row == Head(values)
             cols == [i \in DOMAIN value_row |-> value_to_column_data(value_row[i])]
         IN IF \E i \in DOMAIN cols : ~IsOk(cols[i])
            THEN cols[CHOOSE i \in DOMAIN cols :
                        ~IsOk(cols[i]) /\ \A j \in 1..(i - 1) : IsOk(cols[j])]
            ELSE LET batch == RecordBatchTryNew(ArrowSchema(input_schema),
                                                [i \in DOMAIN cols |-> cols[i].val])
                     rest == parse_values(Tail(values), input_schema)
                 IN IF ~IsOk(batch) THEN batch
                    ELSE IF ~IsOk(rest) THEN rest
                    ELSE Ok(<<batch.val>> \o rest.val)

\* An insert that puts the new batches ahead of the table's.
InsertAhead(original_batches, new_batches) == Ok(new_batches \o original_batches)

\* InsertPlan::insert_into_table
insert_into_table(original_batches, new_batches) == Ok(original_batches \o new_batches)

\* UpdatePlan::update_column_with_value: the column is downcast to the array
\* type of the literal (unwrap), then rebuilt slot by slot.
update_column_with_value(column, value, rows_to_update) ==
    IF value.x # "Value" THEN Panic   \* todo!()
    ELSE CASE value.k = "Number" ->
                IF column.dt # "Int64" THEN Panic
                ELSE Ok(Array("Int64", [i \in DOMAIN column.vals |->
                        IF i \in rows_to_update THEN IntV(value.n) ELSE column.vals[i]]))
           [] value.k = "SingleQuotedString" ->
                IF column.dt # "Utf8" THEN Panic
                ELSE Ok(Array("Utf8", [i \in DOMAIN column.vals |->
                        IF i \in rows_to_update THEN StrV(value.s) ELSE column.vals[i]]))
           [] value.k = "Null" ->
                IF column.dt # "Utf8" THEN Panic
                ELSE Ok(Array("Utf8", [i \in DOMAIN column.vals |->
                        IF i \in rows_to_update THEN NullV ELSE column.vals[i]]))

\* The inner loop of apply_assignments for one column: every assignment whose
\* identifier text equals the batch's field name rewrites the column.
RECURSIVE AssignColumn(_, _, _, _)
AssignColumn(column, field_name, assignments, rows_to_update) ==
    IF assignments = <<>> THEN Ok(column)
    ELSE IF Head(assignments).id.value = field_name
    THEN LET updated == update_column_with_value(column, Head(assignments).value,
                                                 rows_to_update)
         IN IF ~IsOk(updated) THEN updated
            ELSE AssignColumn(updated.val, field_name, Tail(assignments), rows_to_update)
    ELSE AssignColumn(column, field_name, Tail(assignments), rows_to_update)

\* UpdatePlan::apply_assignments
apply_assignments(batch, assignments, rows_to_update) ==
    LET cols == [i \in DOMAIN batch.columns |->
                    AssignColumn(batch.columns[i], batch.schema[i].name, assignments,
                                 rows_to_update)]
    IN IF \E i \in DOMAIN cols : ~IsOk(cols[i])
       THEN cols[CHOOSE i \in DOMAIN cols :
                    ~IsOk(cols[i]) /\ \A j \in 1..(i - 1) : IsOk(cols[j])]
       ELSE RecordBatchTryNew(batch.schema, [i \in DOMAIN cols |-> cols[i].val])

\* UpdatePlan::execute over the batches of its input: the condition is
\* evaluated on every batch.
RECURSIVE UpdateBatches(_, _, _)
UpdateBatches(record_batches, conditions, assignments) ==
    IF record_batches = <<>> THEN Ok(<<>>)
    ELSE LET batch == Head(record_batches)
             predicate == evaluate(conditions, batch)
         IN IF ~IsOk(predicate) THEN predicate
            ELSE IF predicate.val.dt # "Boolean" THEN Panic
            ELSE LET updated == apply_assignments(batch, assignments,
                                                  TruePositions(predicate.val))
                     rest == UpdateBatches(Tail(record_batches), conditions, assignments)
                 IN IF ~IsOk(updated) THEN updated
                    ELSE IF ~IsOk(rest) THEN rest
                    ELSE Ok(<<updated.val>> \o rest.val)

\* The slots of an array that try_delete keeps, in order.
RECURSIVE KeepSlots(_, _, _)
KeepSlots(vals, i, row_indices_to_delete) ==
    IF i > Len(vals) THEN <<>>
    ELSE (IF i \in row_indices_to_delete THEN <<>> ELSE <<vals[i]>>)
         \o KeepSlots(vals, i + 1, row_indices_to_delete)

\* CsvTable::try_delete on one batch. The builder capacity
\* array.len() - row_indices_to_delete.len() is a usize subtraction: when it
\* underflows the thread panics (overflow check, or the allocation of the
\* wrapped capacity).
DeleteFromBatch(batch, schema, row_indices_to_delete) ==
    IF \E c \in DOMAIN batch.columns :
          Len(batch.columns[c].vals) < Cardinality(row_indices_to_delete)
    THEN Panic
    ELSE RecordBatchTryNew(ArrowSchema(schema),
            [c \in DOMAIN batch.columns |->
                Array(batch.columns[c].dt,
                      KeepSlots(batch.columns[c].vals, 1, row_indices_to_delete))])

\* CsvTable::try_delete: the same row indices are removed from every batch.
RECURSIVE DeleteBatches(_, _, _)
DeleteBatches(batches, schema, row_indices_to_delete) ==
    IF batches = <<>> THEN Ok(<<>>)
    ELSE LET b == DeleteFromBatch(Head(batches), schema, row_indices_to_delete)
         IN IF ~IsOk(b) THEN b
            ELSE LET rest == DeleteBatches(Tail(batches), schema, row_indices_to_delete)
                 IN IF ~IsOk(rest) THEN rest ELSE Ok(<<b.val>> \o rest.val)

try_delete(table, row_indices_to_delete) ==
    DeleteBatches(scan(table, <<>>).val, table.schema, row_indices_to_delete)

\* DeletePlan::execute after its input ran: the condition is evaluated on the
\* first batch only (record_batches[0], a panic when there is none), and the
\* true positions are the row indices handed to try_delete.
DeleteExecute(source, record_batches, conditions) ==
    IF record_batches = <<>> THEN Panic
    ELSE LET predicate == evaluate(conditions, record_batches[1])
         IN IF ~IsOk(predicate) THEN predicate
            ELSE IF predicate.val.dt # "Boolean" THEN Panic
            ELSE try_delete(source, TruePositions(predicate.val))

(***************************************************************************)
(* SELECT: lowering to a logical plan.                                     *)
(***************************************************************************)
\* NaiveSchema::field_with_unqualified_name: the first field of that name.
field_with_unqualified_name(schema, name) ==
    IF \E i \in DOMAIN schema : schema[i].name = name
    THEN Ok(schema[CHOOSE i \in DOMAIN schema :
                    schema[i].name = name /\ \A j \in 1..(i - 1) : schema[j].name # name])
    ELSE Err("PlanError")

\* NaiveSchema::field_with_qualified_name: the first field with the qualifier
\* and the name.
field_with_qualified_name(schema, relation_name, name) ==
    LET matches == SelectSeq(schema,
                       LAMBDA field : field.qualifier = <<relation_name>> /\ field.name = name)
    IN IF matches = <<>> THEN Err("PlanError") ELSE Ok(matches[1])

\* LogicalExpr::data_field for a column or an aggregate call
\* (AggregateFunction::data_field: named fun(arg), typed as the argument).
RECURSIVE data_field(_, _)
data_field(expr, schema) ==
    CASE expr.e = "Column" ->
            IF expr.table # <<>> THEN field_with_qualified_name(schema, expr.table[1], expr.name)
            ELSE field_with_unqualified_name(schema, expr.name)
      [] expr.e = "AggregateFunction" ->
            LET dt == data_field(expr.args, schema)
            IN IF ~IsOk(dt) THEN dt
               ELSE Ok(NaiveField(<<>>, expr.fun \o "(" \o dt.val.name \o ")", dt.val.dt))

\* The first failure of a sequence of results, or Ok of their values.
Collect(results) ==
    IF \E i \in DOMAIN results : ~IsOk(results[i])
    THEN results[CHOOSE i \in DOMAIN results :
                    ~IsOk(results[i]) /\ \A j \in 1..(i - 1) : IsOk(results[j])]
    ELSE Ok([i \in DOMAIN results |-> results[i].val])

\* Result::unwrap on a collected sequence: an Err becomes a panic.
Unwrap(result) == IF IsOk(result) THEN result ELSE Panic

\* extract_possible_join_keys: the pairs of <column> = <column> in the
\* predicate, looked for through AND.
RECURSIVE extract_possible_join_keys(_)
extract_possible_join_keys(expr) ==
    IF expr.e # "BinaryExpr" THEN <<>>
    ELSE IF expr.op = "Eq"
    THEN (IF expr.left.e = "Column" /\ expr.right.e = "Column"
          THEN <<<<expr.left, expr.right>>>> ELSE <<>>)
    ELSE IF expr.op = "And"
    THEN extract_possible_join_keys(expr.left) \o extract_possible_join_keys(expr.right)
    ELSE <<>>

\* remove_join_expressions: the predicate without the equalities that became
\* join keys, an Option.
RECURSIVE remove_join_expressions(_, _)
remove_join_expressions(expr, join_columns) ==
    IF expr.e # "BinaryExpr" THEN <<expr>>
    ELSE IF expr.op = "Eq"
    THEN (IF /\ expr.left.e = "Column" /\ expr.right.e = "Column"
             /\ (\/ <<expr.left, expr.right>> \in join_columns
                 \/ <<expr.right, expr.left>> \in join_columns)
          THEN <<>> ELSE <<expr>>)
    ELSE IF expr.op = "And"
    THEN LET l == remove_join_expressions(expr.left, join_columns)
             r == remove_join_expressions(expr.right, join_columns)
         IN IF l # <<>> /\ r # <<>>
            THEN <<[e |-> "BinaryExpr", op |-> "And", left |-> l[1], right |-> r[1]]>>
            ELSE IF l # <<>> THEN l ELSE r
    ELSE <<expr>>

\* DataFrame::join: the schema is the left schema followed by the right one;
\* without keys the node is a CrossJoin.
join(left_plan, right_plan, join_type, left_keys, right_keys) ==
    IF Len(left_keys) # Len(right_keys) THEN Err("PlanError")
    ELSE Ok([schema |-> LogicalSchema(left_plan) \o LogicalSchema(right_plan),
             op |-> IF left_keys = <<>> THEN "CrossJoin" ELSE "Join",
             left |-> left_plan, right |-> right_plan,
             join_type |-> join_type,
             on |-> [i \in DOMAIN left_keys |-> <<left_keys[i], right_keys[i]>>]])

\* The join keys plan_selection finds between the plan joined so far and the
\* next one: the possible keys whose columns resolve, by unqualified name,
\* one on each side, the pair turned round when they resolve the other way.
JoinKeys(possible_join_keys, left_schema, right_schema) ==
    Flatten([i \in DOMAIN possible_join_keys |->
        LET l == possible_join_keys[i][1]
            r == possible_join_keys[i][2]
        IN IF /\ IsOk(field_with_unqualified_name(left_schema, l.name))
              /\ IsOk(field_with_unqualified_name(right_schema, r.name))
           THEN <<<<l, r>>>>
           ELSE IF /\ IsOk(field_with_unqualified_name(left_schema, r.name))
                   /\ IsOk(field_with_unqualified_name(right_schema, l.name))
           THEN <<<<r, l>>>>
           ELSE <<>>])

\* The inner join of the plan joined so far with the next one on the keys
\* found; a plan that no key joins fails with NotImplemented.
JoinOn(left_plan, right_plan, join_keys) ==
    IF join_keys = <<>> THEN Err("NotImplemented")
    ELSE join(left_plan, right_plan, "Inner",
              [i \in DOMAIN join_keys |-> join_keys[i][1]],
              [i \in DOMAIN join_keys |-> join_keys[i][2]])

\* for right in plans.iter().skip(1): the left-deep join of the plans and the
\* keys used.
RECURSIVE InferJoins(_, _, _, _)
InferJoins(left_plan, rights, possible_join_keys, all_join_keys) ==
    IF rights = <<>> THEN Ok([plan |-> left_plan, keys |-> all_join_keys])
    ELSE Try(JoinOn(left_plan, Head(rights),
                    JoinKeys(possible_join_keys, LogicalSchema(left_plan),
                             LogicalSchema(Head(rights)))),
             LAMBDA joined :
                 InferJoins(joined, Tail(rights), possible_join_keys,
                            all_join_keys \cup
                                Range(JoinKeys(possible_join_keys, LogicalSchema(left_plan),
                                               LogicalSchema(Head(rights))))))

\* DataFrame::filter over the plan when a predicate is left.
FilterLeft(filter_expr, plan) ==
    IF filter_expr # <<>>
    THEN Ok([op |-> "Filter", predicate |-> filter_expr[1], input |-> plan])
    ELSE Ok(plan)

\* SQLPlanner::plan_selection: with a WHERE the plans of FROM are joined on
\* the equalities between their columns and what is left of the predicate
\* filters the result; without one, FROM must name one table.
plan_selection(selection, plans) ==
    IF selection = <<>>
    THEN (IF Len(plans) = 1 THEN Ok(plans[1]) ELSE Err("NotImplemented"))
    ELSE Try(InferJoins(plans[1], Tail(plans),
                        extract_possible_join_keys(sql_to_expr(selection[1])), {}),
             LAMBDA joined :
                 FilterLeft(remove_join_expressions(sql_to_expr(selection[1]), joined.keys),
                            joined.plan))

\* What extract_join_keys has pushed to its two accumulators.
Extracted(keys, filters) == [keys |-> keys, filters |-> filters]

\* extract_join_keys: an equality of two columns is pushed to the keys and
\* any other equality to the filters; the two sides of an AND are walked; any
\* other operator is pushed to the filters when one of its sides is a column
\* and has its two sides walked otherwise; what is no binary expression is
\* pushed to the filters.
RECURSIVE extract_join_keys(_)
extract_join_keys(expr) ==
    IF expr.e # "BinaryExpr" THEN Extracted(<<>>, <<expr>>)
    ELSE IF expr.op = "Eq"
    THEN (IF expr.left.e = "Column" /\ expr.right.e = "Column"
          THEN Extracted(<<<<expr.left, expr.right>>>>, <<>>)
          ELSE Extracted(<<>>, <<expr>>))
    ELSE IF expr.op # "And" /\ (expr.left.e = "Column" \/ expr.right.e = "Column")
    THEN Extracted(<<>>, <<expr>>)
    ELSE Extracted(extract_join_keys(expr.left).keys \o extract_join_keys(expr.right).keys,
                   extract_join_keys(expr.left).filters
                       \o extract_join_keys(expr.right).filters)

\* filters[0] AND filters[1] AND ..., folded from the left.
RECURSIVE FoldAnd(_, _)
FoldAnd(acc, filters) ==
    IF filters = <<>> THEN acc
    ELSE FoldAnd([e |-> "BinaryExpr", op |-> "And", left |-> acc, right |-> Head(filters)],
                 Tail(filters))

\* The end of parse_join for ON: the join on the keys, under a Filter of the
\* residual filters when there are any, which only an inner join may have.
JoinExtracted(left_plan, right_plan, join_type, extracted) ==
    IF extracted.filters # <<>> /\ join_type # "Inner" THEN Err("NotImplemented")
    ELSE Try(join(left_plan, right_plan, join_type,
                  [i \in DOMAIN extracted.keys |-> extracted.keys[i][1]],
                  [i \in DOMAIN extracted.keys |-> extracted.keys[i][2]]),
             LAMBDA joined :
                 IF extracted.filters = <<>> THEN Ok(joined)
                 ELSE Ok([op |-> "Filter",
                          predicate |-> FoldAnd(Head(extracted.filters),
                                                Tail(extracted.filters)),
                          input |-> joined]))

\* SQLPlanner::parse_join: constraint is <<expr>> for ON expr and <<>> for
\* no constraint.
parse_join(left_plan, right_plan, constraint, join_type) ==
    IF constraint = <<>> THEN join(left_plan, right_plan, join_type, <<>>, <<>>)
    ELSE JoinExtracted(left_plan, right_plan, join_type,
                       extract_join_keys(sql_to_expr(constraint[1])))

\* SQLPlanner::prepare_select_exprs: select items lowered, wildcards expanded
\* to one unqualified column per field of the input.
prepare_select_exprs(schema, projection) ==
    Flatten([i \in DOMAIN projection |->
        IF projection[i].x = "Wildcard"
        THEN [f \in DOMAIN schema |->
                [e |-> "Column", name |-> schema[f].name, table |-> <<>>]]
        ELSE <<sql_to_expr(projection[i])>>])

\* SQLPlanner::find_agrr_exprs
AggrExprs(exprs) == SelectSeq(exprs, LAMBDA ex : ex.e = "AggregateFunction")
ProjectExprs(exprs) == SelectSeq(exprs, LAMBDA ex : ex.e # "AggregateFunction")

\* DataFrame::aggregate (called from plan_from_aggregate): the schema is the
\* group fields followed by the aggregate fields, each data_field unwrapped.
plan_from_aggregate(plan, aggr_exprs, group_by) ==
    LET group_expr == [i \in DOMAIN group_by |-> sql_to_expr(group_by[i])]
        group_fields == Unwrap(Collect([i \in DOMAIN group_expr |->
                            data_field(group_expr[i], LogicalSchema(plan))]))
        aggr_fields == Unwrap(Collect([i \in DOMAIN aggr_exprs |->
                            data_field(aggr_exprs[i], LogicalSchema(plan))]))
    IN IF ~IsOk(group_fields) THEN group_fields
       ELSE IF ~IsOk(aggr_fields) THEN aggr_fields
       ELSE Ok([schema |-> group_fields.val \o aggr_fields.val, op |-> "Aggregate", input |-> plan,
                group_expr |-> group_expr, aggr_expr |-> aggr_exprs])

\* DataFrame::project (called from plan_from_projection)
plan_from_projection(plan, projection) ==
    LET fields == Collect([i \in DOMAIN projection |->
                        data_field(projection[i], LogicalSchema(plan))])
    IN IF ~IsOk(fields) THEN fields
       ELSE Ok([schema |-> fields.val, op |-> "Projection", input |-> plan,
                exprs |-> projection])

\* SQLPlanner::plan_from_tables: one scan per table of FROM, each looked up
\* by parse_table under its normalized name; the alias is not read.
plan_from_tables(cat, from) ==
    Collect([t \in DOMAIN from |-> parse_table_new(cat, from[t])])

\* set_expr_to_plan after FROM and WHERE: the select list is lowered, an
\* Aggregate is put over the plan when it holds aggregate calls, and the
\* projection over that.
SelectOver(plan, select) ==
    LET select_exprs == prepare_select_exprs(LogicalSchema(plan), select.projection)
        aggr_exprs == AggrExprs(select_exprs)
        project_exprs == ProjectExprs(select_exprs)
        aggregated == IF aggr_exprs = <<>> THEN Ok(plan)
                      ELSE plan_from_aggregate(plan, aggr_exprs, select.group_by)
    IN IF ~IsOk(aggregated) THEN aggregated
       ELSE plan_from_projection(aggregated.val, project_exprs)

\* SQLPlanner::set_expr_to_plan
set_expr_to_plan(cat, from, selection, select) ==
    Try(plan_from_tables(cat, from),
        LAMBDA plans :
            Try(plan_selection(selection, plans), LAMBDA plan : SelectOver(plan, select)))

\* The count of a LIMIT or OFFSET clause: the clause must lower to an Int64
\* literal that is not NULL.
ClauseCount(clause) ==
    LET expr == sql_to_expr(clause)
    IN IF expr.e = "Literal" /\ expr.value.dt = "Int64" /\ ~expr.value.v.null
       THEN Ok(expr.value.v.i)
       ELSE Err("PlanError")

\* SQLPlanner::limit with DataFrame::limit
limit(plan, limit_expr) ==
    IF limit_expr = <<>> THEN Ok(plan)
    ELSE LET n == ClauseCount(limit_expr[1])
         IN IF ~IsOk(n) THEN n ELSE Ok([n |-> n.val, op |-> "Limit", input |-> plan])

\* SQLPlanner::offset with DataFrame::offset
offset(plan, offset_expr) ==
    IF offset_expr = <<>> THEN Ok(plan)
    ELSE LET n == ClauseCount(offset_expr[1])
         IN IF ~IsOk(n) THEN n ELSE Ok([n |-> n.val, op |-> "Offset", input |-> plan])

\* A Query arm that applies LIMIT to the body and OFFSET to what it keeps.
QueryArmLimitFirst(body, select) ==
    IF ~IsOk(body) THEN body
    ELSE LET plan == limit(body.val, select.limit)
         IN IF ~IsOk(plan) THEN plan ELSE offset(plan.val, select.offset)

\* The Query arm of statement_to_plan once the body is lowered: OFFSET is
\* applied first, LIMIT second.
QueryArm(body, select) ==
    IF ~IsOk(body) THEN body
    ELSE LET plan == offset(body.val, select.offset)
         IN IF ~IsOk(plan) THEN plan ELSE limit(plan.val, select.limit)

\* SQLPlanner::statement_to_plan
statement_to_plan(cat, statement) ==
    CASE statement.kind = "Query" ->
            QueryArm(set_expr_to_plan(cat, statement.names, statement.selection,
                                      statement.select),
                     statement.select)
      [] statement.kind = "CreateTable" ->
            Ok([schema |-> columns_to_naive_schema(statement.columns),
                table_name |-> normalize_sql_object_name(statement.names[1]),
                op |-> "CreateTable"])
      [] statement.kind = "Drop" -> parse_table_new(cat, statement.names[1])
      [] statement.kind = "Update" ->
            LET plan == parse_table_new(cat, statement.names[1])
            IN IF ~IsOk(plan) THEN plan
               ELSE plan_update_assignments(statement.selection, statement.assignments,
                                            plan.val)
      [] statement.kind = "Insert" ->
            LET plan == parse_table_new(cat, statement.names[1])
            IN IF ~IsOk(plan) THEN plan ELSE plan_insert(statement.source, plan.val)
      [] statement.kind = "Delete" ->
            LET plan == parse_table_new(cat, statement.names[1])
            IN IF ~IsOk(plan) THEN plan
               ELSE plan_delete(cat, statement.names[1], statement.selection, plan.val)
      [] OTHER -> Panic   \* unimplemented!()

(***************************************************************************)
(* Aggregators (src/src/physical_plan/aggregate).                          *)
(***************************************************************************)
\* An aggregator: its kind, the index of its column, its accumulator.
\* Sum::create
Sum(idx) == [fun |-> "sum", idx |-> idx, acc |-> 0]

\* Sum::data_field (by index): named sum(col), typed Float64.
SumDataField(aggr_op, schema) ==
    IF aggr_op.idx \notin DOMAIN schema THEN Panic
    ELSE Ok(NaiveField(<<>>, "sum(" \o schema[aggr_op.idx].name \o ")", "Float64"))

\* What one slot adds to the sum: a null adds nothing.
SumOf(slot) == IF slot.null THEN 0 ELSE slot.i

\* Sum::update_batch: NotSupported on a column that is not Int64, UInt64, Float64.
SumUpdateBatch(aggr_op, data) ==
    LET col == evaluate([p |-> "Column", idx |-> aggr_op.idx], data)
    IN IF ~IsOk(col) THEN col
       ELSE IF col.val.dt \notin {"Int64", "UInt64", "Float64"} THEN Err("NotSupported")
       ELSE Ok([aggr_op EXCEPT !.acc = @ + SeqSum([i \in DOMAIN col.val.vals |->
                                                        SumOf(col.val.vals[i])])])

\* Sum::update: one row; unimplemented!() on a column of another type.
SumUpdate(aggr_op, data, idx) ==
    LET col == evaluate([p |-> "Column", idx |-> aggr_op.idx], data)
    IN IF ~IsOk(col) THEN col
       ELSE IF col.val.dt \notin {"Int64", "UInt64", "Float64"} THEN Panic
       ELSE Ok([aggr_op EXCEPT !.acc = @ + SumOf(col.val.vals[idx])])

\* Sum::evaluate
SumEvaluate(aggr_op) == ScalarFloat64(aggr_op.acc)

\* Count: a counter of the non-null values of its column, result UInt64.
Count(idx) == [fun |-> "count", idx |-> idx, acc |-> 0]

CountDataField(aggr_op, schema) ==
    IF aggr_op.idx \notin DOMAIN schema THEN Panic
    ELSE Ok(NaiveField(<<>>, "count(" \o schema[aggr_op.idx].name \o ")", "UInt64"))

CountOf(slot) == IF slot.null THEN 0 ELSE 1

CountUpdateBatch(aggr_op, data) ==
    LET col == evaluate([p |-> "Column", idx |-> aggr_op.idx], data)
    IN IF ~IsOk(col) THEN col
       ELSE Ok([aggr_op EXCEPT !.acc = @ + SeqSum([i \in DOMAIN col.val.vals |->
                                                        CountOf(col.val.vals[i])])])

CountUpdate(aggr_op, data, idx) ==
    LET col == evaluate([p |-> "Column", idx |-> aggr_op.idx], data)
    IN IF ~IsOk(col) THEN col
       ELSE Ok([aggr_op EXCEPT !.acc = @ + CountOf(col.val.vals[idx])])

CountEvaluate(aggr_op) == ScalarUInt64(aggr_op.acc)

\* Avg::create: a sum and a count of the non-null values of its column.
Avg(idx) == [fun |-> "avg", idx |-> idx, acc |-> 0, cnt |-> 0]

\* Avg::data_field (by index): named avg(col), typed Float64.
AvgDataField(aggr_op, schema) ==
    IF aggr_op.idx \notin DOMAIN schema THEN Panic
    ELSE Ok(NaiveField(<<>>, "avg(" \o schema[aggr_op.idx].name \o ")", "Float64"))

\* Avg::update_batch: NotSupported on a column that is not Int64, UInt64, Float64.
AvgUpdateBatch(aggr_op, data) ==
    LET col == evaluate([p |-> "Column", idx |-> aggr_op.idx], data)
    IN IF ~IsOk(col) THEN col
       ELSE IF col.val.dt \notin {"Int64", "UInt64", "Float64"} THEN Err("NotSupported")
       ELSE Ok([aggr_op EXCEPT
                   !.acc = @ + SeqSum([i \in DOMAIN col.val.vals |-> SumOf(col.val.vals[i])]),
                   !.cnt = @ + SeqSum([i \in DOMAIN col.val.vals |-> CountOf(col.val.vals[i])])])

\* Avg::update: one row; unimplemented!() on a column of another type.
AvgUpdate(aggr_op, data, idx) ==
    LET col == evaluate([p |-> "Column", idx |-> aggr_op.idx], data)
    IN IF ~IsOk(col) THEN col
       ELSE IF col.val.dt \notin {"Int64", "UInt64", "Float64"} THEN Panic
       ELSE Ok([aggr_op EXCEPT !.acc = @ + SumOf(col.val.vals[idx]),
                               !.cnt = @ + CountOf(col.val.vals[idx])])

RECURSIVE GCD(_, _)
GCD(a, b) == IF b = 0 THEN a ELSE GCD(b, a % b)

\* The f64 quotient num / den of two counts, kept exact as a fraction in
\* lowest terms; 0 / 0 is NaN and n / 0 infinite.
Float64Quotient(num, den) ==
    IF den = 0 THEN [null |-> FALSE, i |-> IF num = 0 THEN 0 ELSE 1, s |-> "", den |-> 0]
    ELSE [null |-> FALSE, i |-> num \div GCD(num, den), s |-> "", den |-> den \div GCD(num, den)]

\* Avg::evaluate: sum / cnt as f64.
AvgEvaluate(aggr_op) == [dt |-> "Float64", v |-> Float64Quotient(aggr_op.acc, aggr_op.cnt)]

\* trait AggregateOperator, dispatched on the kind of the aggregator.
AggrDataField(aggr_op, schema) ==
    CASE aggr_op.fun = "sum" -> SumDataField(aggr_op, schema)
      [] aggr_op.fun = "avg" -> AvgDataField(aggr_op, schema)
      [] OTHER -> CountDataField(aggr_op, schema)

update_batch(aggr_op, data) ==
    CASE aggr_op.fun = "sum" -> SumUpdateBatch(aggr_op, data)
      [] aggr_op.fun = "avg" -> AvgUpdateBatch(aggr_op, data)
      [] OTHER -> CountUpdateBatch(aggr_op, data)

update(aggr_op, data, idx) ==
    CASE aggr_op.fun = "sum" -> SumUpdate(aggr_op, data, idx)
      [] aggr_op.fun = "avg" -> AvgUpdate(aggr_op, data, idx)
      [] OTHER -> CountUpdate(aggr_op, data, idx)

AggrEvaluate(aggr_op) ==
    CASE aggr_op.fun = "sum" -> SumEvaluate(aggr_op)
      [] aggr_op.fun = "avg" -> AvgEvaluate(aggr_op)
      [] OTHER -> CountEvaluate(aggr_op)

\* An aggregator that keeps what it accumulated.
KeepState(aggr_op) == aggr_op

\* Sum::clear_state (and Count's): the accumulator back to zero; Avg's: the
\* sum and the count back to zero.
clear_state(aggr_op) ==
    IF aggr_op.fun = "avg" THEN [aggr_op EXCEPT !.acc = 0, !.cnt = 0]
    ELSE [aggr_op EXCEPT !.acc = 0]

\* concat_batches: the columns of the batches appended one after another,
\* under the given schema; no batch gives an empty batch of that schema.
concat_batches(aschema, batches) ==
    IF batches = <<>>
    THEN Ok([schema |-> aschema,
             columns |-> [c \in DOMAIN aschema |-> Array(aschema[c].dt, <<>>)]])
    ELSE IF \E b \in DOMAIN batches : Len(batches[b].columns) < Len(aschema) THEN Panic
    ELSE IF \E b \in DOMAIN batches, c \in DOMAIN aschema :
               batches[b].columns[c].dt # batches[1].columns[c].dt
    THEN Err("ArrowError")
    ELSE RecordBatchTryNew(aschema,
            [c \in DOMAIN aschema |->
                Array(batches[1].columns[c].dt,
                      Flatten([b \in DOMAIN batches |-> batches[b].columns[c].vals]))])

(***************************************************************************)
(* PhysicalAggregatePlan::execute. The aggregators are interior state of   *)
(* the plan node: each operator below returns the result together with the *)
(* aggregators as execution left them.                                     *)
(***************************************************************************)
Ran(res, aggr_ops) == [res |-> res, aggr_ops |-> aggr_ops]

\* ? inside execute: the value of an Ok goes on; otherwise execute returns,
\* leaving the aggregators as they are.
TryRan(r, aggr_ops, F(_)) == IF IsOk(r) THEN F(r.val) ELSE Ran(r, aggr_ops)

\* A loop of execute that completed goes on with the aggregators it left.
AndThen(ran, F(_)) == IF IsOk(ran.res) THEN F(ran) ELSE ran

\* aggr_ops[i] after an update that succeeded.
StoreOp(aggr_ops, i, aggr_op) == [aggr_ops EXCEPT ![i] = aggr_op]

\* for i in 0..len { aggr_ops[i].update_batch(batch)? }
RECURSIVE UpdateBatchOps(_, _, _)
UpdateBatchOps(aggr_ops, i, batch) ==
    IF i > Len(aggr_ops) THEN Ran(Ok(<<>>), aggr_ops)
    ELSE TryRan(update_batch(aggr_ops[i], batch), aggr_ops,
                LAMBDA aggr_op : UpdateBatchOps(StoreOp(aggr_ops, i, aggr_op), i + 1, batch))

\* for batch in &batches { ... }
RECURSIVE FoldBatches(_, _)
FoldBatches(aggr_ops, batches) ==
    IF batches = <<>> THEN Ran(Ok(<<>>), aggr_ops)
    ELSE AndThen(UpdateBatchOps(aggr_ops, 1, Head(batches)),
                 LAMBDA ran : FoldBatches(ran.aggr_ops, Tail(batches)))

\* One row of results: every aggregator evaluated to an array of one slot,
\* and the arrays made a batch under the output schema.
EvaluateRow(aggr_ops, aschema) ==
    RecordBatchTryNew(aschema,
        [i \in DOMAIN aggr_ops |-> into_array(AggrEvaluate(aggr_ops[i]), 1)])

\* The path without GROUP BY: every batch is folded into the aggregators, the
\* results form one row; the aggregators are not cleared.
AggregateNoGroup(aggr_ops, batches, aschema) ==
    AndThen(FoldBatches(aggr_ops, batches),
            LAMBDA ran : TryRan(EvaluateRow(ran.aggr_ops, aschema), ran.aggr_ops,
                                LAMBDA record_batch : Ran(Ok(<<record_batch>>), ran.aggr_ops)))

\* The distinct non-null values of the group column, in first-seen order.
RECURSIVE FirstSeen(_, _)
FirstSeen(vals, seen) ==
    IF vals = <<>> THEN seen
    ELSE IF Head(vals).null \/ Head(vals) \in Range(seen) THEN FirstSeen(Tail(vals), seen)
    ELSE FirstSeen(Tail(vals), Append(seen, Head(vals)))

\* A map whose insert replaces the index list of a key instead of extending
\* it: a group keeps only its last row.
GroupIdxsLastRow(vals, key) ==
    <<CHOOSE i \in DOMAIN vals : vals[i] = key /\ \A j \in DOMAIN vals : vals[j] = key => j <= i>>

\* group_idxs: for a key, the indices of its rows, ascending.
GroupIdxs(vals, key) == SelectSeq([i \in DOMAIN vals |-> i], LAMBDA i : vals[i] = key)

\* The iteration orders HashMap::values() may produce over n entries.
Orders(n) == Permutations(1..n)

\* group_idxs.values(): the index lists of the keys, in the order the map yields.
GroupsInOrder(vals, keys, order) ==
    [k \in DOMAIN keys |-> GroupIdxs(vals, keys[order[k]])]

\* for idx in group_idx { for i in 0..len { aggr_ops[i].update(&single_batch, idx)? } }
RECURSIVE UpdateRows(_, _, _, _)
UpdateRows(aggr_ops, idxs, i, single_batch) ==
    IF idxs = <<>> THEN Ran(Ok(<<>>), aggr_ops)
    ELSE IF i > Len(aggr_ops) THEN UpdateRows(aggr_ops, Tail(idxs), 1, single_batch)
    ELSE TryRan(update(aggr_ops[i], single_batch, Head(idxs)), aggr_ops,
                LAMBDA aggr_op :
                    UpdateRows(StoreOp(aggr_ops, i, aggr_op), idxs, i + 1, single_batch))

\* for i in 0..len { aggr_ops[i].clear_state() }
ClearAll(aggr_ops) == [i \in DOMAIN aggr_ops |-> clear_state(aggr_ops[i])]

\* batches.push(record_batch) ahead of what the later groups push.
Pushed(record_batch, rest) ==
    IF ~IsOk(rest.res) THEN rest
    ELSE Ran(Ok(<<record_batch>> \o rest.res.val), rest.aggr_ops)

\* for group_idx in group_idxs.values() { ... }: one output batch of one row
\* per group, the aggregators cleared after each group.
RECURSIVE GroupLoop(_, _, _, _)
GroupLoop(aggr_ops, groups, single_batch, aschema) ==
    IF groups = <<>> THEN Ran(Ok(<<>>), aggr_ops)
    ELSE AndThen(UpdateRows(aggr_ops, Head(groups), 1, single_batch),
            LAMBDA ran :
                TryRan(EvaluateRow(ran.aggr_ops, aschema), ran.aggr_ops,
                    LAMBDA record_batch :
                        Pushed(record_batch,
                               GroupLoop(ClearAll(ran.aggr_ops), Tail(groups), single_batch,
                                         aschema))))

\* The groups of a key column: visited in the order the hash map yields them,
\* then concatenated to one batch.
GroupByColumn(aggr_ops, val, single_batch, aschema, order) ==
    IF val.dt \notin {"Int64", "UInt64", "Utf8"} THEN Ran(Err("NotSupported"), aggr_ops)
    ELSE AndThen(GroupLoop(aggr_ops,
                           GroupsInOrder(val.vals, FirstSeen(val.vals, <<>>), order),
                           single_batch, aschema),
            LAMBDA ran :
                TryRan(concat_batches(aschema, ran.res.val), ran.aggr_ops,
                       LAMBDA out : Ran(Ok(<<out>>), ran.aggr_ops)))

\* The path with GROUP BY: the input is concatenated to one batch, the first
\* group expression is evaluated on it, rows with a null key join no group.
AggregateGroupBy(aggr_ops, group_expr, input_aschema, batches, aschema, order) ==
    TryRan(concat_batches(input_aschema, batches), aggr_ops,
        LAMBDA single_batch :
            TryRan(evaluate(group_expr[1], single_batch), aggr_ops,
                LAMBDA val : GroupByColumn(aggr_ops, val, single_batch, aschema, order)))

\* PhysicalAggregatePlan::execute after its input ran: the output schema holds
\* one field per aggregator and none for the group key.
AggregateExecute(aggr_ops, group_expr, input_schema, batches, order) ==
    TryRan(Collect([i \in DOMAIN aggr_ops |-> AggrDataField(aggr_ops[i], input_schema)]),
           aggr_ops,
        LAMBDA fields :
            IF group_expr = <<>>
            THEN AggregateNoGroup(aggr_ops, batches, ArrowSchema(fields))
            ELSE AggregateGroupBy(aggr_ops, group_expr, ArrowSchema(input_schema), batches,
                                  ArrowSchema(fields), order))

\* The number of entries of the hash map the GROUP BY path builds.
KeyCount(val) == IF ~IsOk(val) THEN 0 ELSE Len(FirstSeen(val.val.vals, <<>>))

GroupCountIn(group_expr, single_batch) ==
    IF ~IsOk(single_batch) THEN 0 ELSE KeyCount(evaluate(group_expr[1], single_batch.val))

GroupCount(group_expr, input_schema, batches) ==
    IF group_expr = <<>> THEN 0
    ELSE GroupCountIn(group_expr, concat_batches(ArrowSchema(input_schema), batches))

(***************************************************************************)
(* SelectionPlan::execute and ProjectionPlan::execute.                     *)
(***************************************************************************)
\* build_array_by_predicate!: the predicate is zipped with the column; a true
\* slot keeps the value, a false slot drops it, a null slot appends a null.
RECURSIVE build_array_by_predicate(_, _)
build_array_by_predicate(column, predicate) ==
    IF column = <<>> \/ predicate = <<>> THEN <<>>
    ELSE (IF Head(predicate).null THEN <<NullV>>
          ELSE IF Head(predicate).i = 1 THEN <<Head(column)>> ELSE <<>>)
         \o build_array_by_predicate(Tail(column), Tail(predicate))

\* The loop over the input batches of SelectionPlan::execute.
RECURSIVE SelectBatches(_, _, _)
SelectBatches(input, predicate, aschema) ==
    IF input = <<>> THEN Ok(<<>>)
    ELSE LET batch == Head(input)
         IN IF \E c \in DOMAIN batch.columns :
                  batch.columns[c].dt \notin {"Boolean", "UInt64", "Int64", "Float64", "Utf8"}
            THEN Panic   \* unimplemented!()
            ELSE LET columns == [c \in DOMAIN batch.columns |->
                                    Array(batch.columns[c].dt,
                                          build_array_by_predicate(batch.columns[c].vals,
                                                                   predicate.vals))]
                     record_batch == RecordBatchTryNew(aschema, columns)
                     rest == SelectBatches(Tail(input), predicate, aschema)
                 IN IF ~IsOk(record_batch) THEN record_batch
                    ELSE IF ~IsOk(rest) THEN rest
                    ELSE Ok(<<record_batch.val>> \o rest.val)

\* SelectionPlan::execute after its input ran: the predicate is evaluated on
\* input[0] (a panic when there is no batch) and reused for every batch.
SelectionExecute(expr, schema, input) ==
    IF input = <<>> THEN Panic
    ELSE LET predicate == evaluate(expr, input[1])
         IN IF ~IsOk(predicate) THEN predicate
            ELSE IF predicate.val.dt # "Boolean" THEN Panic
            ELSE SelectBatches(input, predicate.val, ArrowSchema(schema))

\* ProjectionPlan::execute after its input ran: an empty schema passes the
\* input through; otherwise every failure is unwrapped to a panic.
ProjectionExecute(expr, schema, input) ==
    IF schema = <<>> THEN Ok(input)
    ELSE LET batches == [b \in DOMAIN input |->
                LET columns == Unwrap(Collect([i \in DOMAIN expr |->
                                                evaluate(expr[i], input[b])]))
                IN IF ~IsOk(columns) THEN Panic
                   ELSE Unwrap(RecordBatchTryNew(ArrowSchema(schema), columns.val))]
         IN Collect(batches)

\* RecordBatch::slice (arrow): length rows from the zero-based start.
Slice(batch, start, length) ==
    [schema |-> batch.schema,
     columns |-> [c \in DOMAIN batch.columns |->
                    Array(batch.columns[c].dt,
                          SubSeq(batch.columns[c].vals, start + 1, start + length))]]

\* A limit that cuts every batch to n rows instead of counting across batches.
RECURSIVE LimitEachBatch(_, _)
LimitEachBatch(batches, n) ==
    IF batches = <<>> \/ n = 0 THEN <<>>
    ELSE IF num_rows(Head(batches)) <= n
    THEN <<Head(batches)>> \o LimitEachBatch(Tail(batches), n)
    ELSE <<Slice(Head(batches), 0, n)>> \o LimitEachBatch(Tail(batches), n)

\* PhysicalLimitPlan::execute after its input ran: whole batches while they
\* fit in the n rows left, then the head of the batch that does not.
RECURSIVE LimitBatches(_, _)
LimitBatches(batches, n) ==
    IF batches = <<>> \/ n = 0 THEN <<>>
    ELSE IF num_rows(Head(batches)) <= n
    THEN <<Head(batches)>> \o LimitBatches(Tail(batches), n - num_rows(Head(batches)))
    ELSE <<Slice(Head(batches), 0, n)>>

\* An offset that skips the first n rows of every batch.
RECURSIVE OffsetEachBatch(_, _)
OffsetEachBatch(batches, n) ==
    IF batches = <<>> THEN <<>>
    ELSE IF n = 0 THEN batches
    ELSE IF n >= num_rows(Head(batches)) THEN OffsetEachBatch(Tail(batches), n)
    ELSE <<Slice(Head(batches), n, num_rows(Head(batches)) - n)>>
         \o OffsetEachBatch(Tail(batches), n)

\* PhysicalOffsetPlan::execute after its input ran: whole batches are skipped
\* while n covers them, the batch n ends in is cut, the rest pass.
RECURSIVE OffsetBatches(_, _)
OffsetBatches(batches, n) ==
    IF batches = <<>> THEN <<>>
    ELSE IF n = 0 THEN batches
    ELSE IF n >= num_rows(Head(batches))
    THEN OffsetBatches(Tail(batches), n - num_rows(Head(batches)))
    ELSE <<Slice(Head(batches), n, num_rows(Head(batches)) - n)>>
         \o OffsetBatches(Tail(batches), 0)

(***************************************************************************)
(* QueryPlanner::create_physical_plan and PhysicalPlan::execute.           *)
(***************************************************************************)
\* PhysicalPlan::schema
RECURSIVE PhysicalSchema(_)
PhysicalSchema(pplan) ==
    CASE pplan.op = "Scan" -> pplan.source.schema
      [] pplan.op \in {"CreateTable", "Projection", "Aggregate", "HashJoin"} -> pplan.schema
      [] OTHER -> PhysicalSchema(pplan.input)

\* The aggregator of one aggregate call: its argument must lower to a column.
CreateAggrOp(aggr_expr, schema) ==
    LET expr == create_physical_expression(aggr_expr.args, schema)
    IN IF ~IsOk(expr) THEN expr
       ELSE IF expr.val.p # "Column" THEN Err("PlanError")
       ELSE Ok(CASE aggr_expr.fun = "sum" -> Sum(expr.val.idx)
                 [] aggr_expr.fun = "avg" -> Avg(expr.val.idx)
                 [] OTHER -> Count(expr.val.idx))

RECURSIVE create_physical_plan(_)
create_physical_plan(plan) ==
    CASE plan.op = "TableScan" -> Ok([source |-> plan.source, op |-> "Scan"])
      [] plan.op = "CreateTable" -> Ok([schema |-> plan.schema, op |-> "CreateTable"])
      [] plan.op = "Delete" ->
            LET input == create_physical_plan(plan.input)
                conditions == create_physical_expression(plan.conditions, LogicalSchema(plan))
            IN IF ~IsOk(input) THEN input
               ELSE IF ~IsOk(conditions) THEN conditions
               ELSE Ok([source |-> plan.source, op |-> "Delete", input |-> input.val,
                        conditions |-> conditions.val])
      [] plan.op = "Insert" ->
            LET input == create_physical_plan(plan.input)
            IN IF ~IsOk(input) THEN input
               ELSE Ok([source |-> plan.source, op |-> "Insert", input |-> input.val])
      [] plan.op = "Update" ->
            LET input == create_physical_plan(plan.input)
                conditions == create_physical_expression(plan.conditions, LogicalSchema(plan))
            IN IF ~IsOk(input) THEN input
               ELSE IF ~IsOk(conditions) THEN conditions
               ELSE Ok([op |-> "Update", assignments |-> plan.assignments, input |-> input.val,
                        conditions |-> conditions.val])
      [] plan.op = "Projection" ->
            LET input == create_physical_plan(plan.input)
                proj_expr == Unwrap(Collect([i \in DOMAIN plan.exprs |->
                    create_physical_expression(plan.exprs[i], LogicalSchema(plan.input))]))
                fields == Unwrap(Collect([i \in DOMAIN plan.exprs |->
                    data_field(plan.exprs[i], LogicalSchema(plan.input))]))
            IN IF ~IsOk(input) THEN input
               ELSE IF ~IsOk(proj_expr) THEN proj_expr
               ELSE IF ~IsOk(fields) THEN fields
               ELSE Ok([schema |-> fields.val, op |-> "Projection", expr |-> proj_expr.val,
                        input |-> input.val])
      [] plan.op = "Filter" ->
            LET predicate == create_physical_expression(plan.predicate, LogicalSchema(plan))
                input == create_physical_plan(plan.input)
            IN IF ~IsOk(predicate) THEN predicate
               ELSE IF ~IsOk(input) THEN input
               ELSE Ok([op |-> "Selection", expr |-> predicate.val, input |-> input.val])
      [] plan.op = "Join" ->
            LET left == create_physical_plan(plan.left)
                right == create_physical_plan(plan.right)
            IN IF ~IsOk(left) THEN left
               ELSE IF ~IsOk(right) THEN right
               ELSE Ok([schema |-> plan.schema, op |-> "HashJoin", left |-> left.val,
                        right |-> right.val, join_type |-> plan.join_type, on |-> plan.on])
      [] plan.op = "Limit" ->
            LET input == create_physical_plan(plan.input)
            IN IF ~IsOk(input) THEN input
               ELSE Ok([n |-> plan.n, op |-> "Limit", input |-> input.val])
      [] plan.op = "Offset" ->
            LET input == create_physical_plan(plan.input)
            IN IF ~IsOk(input) THEN input
               ELSE Ok([n |-> plan.n, op |-> "Offset", input |-> input.val])
      [] plan.op = "Aggregate" ->
            LET group_exprs == Collect([i \in DOMAIN plan.group_expr |->
                    create_physical_expression(plan.group_expr[i], LogicalSchema(plan.input))])
                aggr_ops == Collect([i \in DOMAIN plan.aggr_expr |->
                    CreateAggrOp(plan.aggr_expr[i], LogicalSchema(plan.input))])
                input == create_physical_plan(plan.input)
            IN IF ~IsOk(group_exprs) THEN group_exprs
               ELSE IF ~IsOk(aggr_ops) THEN aggr_ops
               ELSE IF ~IsOk(input) THEN input
               ELSE Ok([schema |-> PhysicalSchema(input.val), op |-> "Aggregate",
                        input |-> input.val, group_expr |-> group_exprs.val,
                        aggr_ops |-> aggr_ops.val])

\* One execution of a physical plan: the result, and the plan with the state
\* its aggregators are left in.
Executed(res, pplan) == [plan |-> pplan, res |-> res]

\* InsertPlan::execute: the VALUES are parsed first, then the input runs.
InsertExecute(pplan, new_batches, original) ==
    IF ~IsOk(new_batches) THEN Executed(new_batches, pplan)
    ELSE IF ~IsOk(original.res) THEN Executed(original.res, pplan)
    ELSE Executed(insert_into_table(original.res.val, new_batches.val), pplan)

\* UpdatePlan::execute
UpdateExecute(pplan, input) ==
    IF ~IsOk(input.res) THEN Executed(input.res, pplan)
    ELSE Executed(UpdateBatches(input.res.val, pplan.conditions, pplan.assignments), pplan)

\* DeletePlan::execute
DeletePlanExecute(pplan, input) ==
    IF ~IsOk(input.res) THEN Executed(input.res, pplan)
    ELSE Executed(DeleteExecute(pplan.source, input.res.val, pplan.conditions), pplan)

\* SelectionPlan::execute
SelectionPlanExecute(pplan, schema, input) ==
    Executed(IF ~IsOk(input.res) THEN input.res
             ELSE SelectionExecute(pplan.expr, schema, input.res.val),
             [pplan EXCEPT !.input = input.plan])

\* ProjectionPlan::execute
ProjectionPlanExecute(pplan, input) ==
    Executed(IF ~IsOk(input.res) THEN input.res
             ELSE ProjectionExecute(pplan.expr, pplan.schema, input.res.val),
             [pplan EXCEPT !.input = input.plan])

\* PhysicalLimitPlan::execute
LimitPlanExecute(pplan, input) ==
    Executed(IF ~IsOk(input.res) THEN input.res ELSE Ok(LimitBatches(input.res.val, pplan.n)),
             [pplan EXCEPT !.input = input.plan])

\* PhysicalOffsetPlan::execute
OffsetPlanExecute(pplan, input) ==
    Executed(IF ~IsOk(input.res) THEN input.res ELSE Ok(OffsetBatches(input.res.val, pplan.n)),
             [pplan EXCEPT !.input = input.plan])

\* The index of the first field of the schema with the name.
KeyIndex(schema, name) ==
    CHOOSE i \in DOMAIN schema :
        schema[i].name = name /\ \A j \in 1..(i - 1) : schema[j].name # name

\* A batch of the schema from rows.
RowsToBatch(schema, rows) ==
    [schema |-> ArrowSchema(schema),
     columns |-> [c \in DOMAIN schema |->
                    Array(schema[c].dt, [r \in DOMAIN rows |-> rows[r][c]])]]

\* HashJoin::execute for an inner join: the right rows are the build side;
\* every left row is emitted once with each right row whose key tuple equals
\* its own, in build order, a null key matching nothing. One batch is
\* emitted per left batch.
HashJoinExecute(pplan, left, right) ==
    IF ~IsOk(left.res) THEN Executed(left.res, pplan)
    ELSE IF ~IsOk(right.res) THEN Executed(right.res, pplan)
    ELSE LET left_keys == [i \in DOMAIN pplan.on |->
                             KeyIndex(PhysicalSchema(pplan.left), pplan.on[i][1].name)]
             right_keys == [i \in DOMAIN pplan.on |->
                              KeyIndex(PhysicalSchema(pplan.right), pplan.on[i][2].name)]
             build == AllRows(right.res.val)
             Matches(l, r) == \A i \in DOMAIN pplan.on :
                                 /\ ~l[left_keys[i]].null
                                 /\ l[left_keys[i]] = r[right_keys[i]]
             Probe(batch) ==
                 Flatten([l \in DOMAIN BatchRows(batch) |->
                     LET matched == SelectSeq(build,
                                        LAMBDA r : Matches(BatchRows(batch)[l], r))
                     IN [m \in DOMAIN matched |-> BatchRows(batch)[l] \o matched[m]]])
         IN Executed(Ok([b \in DOMAIN left.res.val |->
                            RowsToBatch(pplan.schema, Probe(left.res.val[b]))]),
                     pplan)

\* The aggregate node with the aggregators as an execution left them.
AggregateRan(pplan, ran) == Executed(ran.res, [pplan EXCEPT !.aggr_ops = ran.aggr_ops])

\* PhysicalAggregatePlan::execute
AggregatePlanExecute(pplan, input_schema, input, order) ==
    IF ~IsOk(input.res) THEN Executed(input.res, pplan)
    ELSE AggregateRan(pplan, AggregateExecute(pplan.aggr_ops, pplan.group_expr, input_schema,
                                              input.res.val, order))

\* One node of a physical plan, given what its input returned.
ExecuteNode(pplan, input, order) ==
    CASE pplan.op = "Insert" ->
            InsertExecute(pplan, parse_values(pplan.source, PhysicalSchema(pplan.input)),
                          input)
      [] pplan.op = "Update" -> UpdateExecute(pplan, input)
      [] pplan.op = "Delete" -> DeletePlanExecute(pplan, input)
      [] pplan.op = "Selection" -> SelectionPlanExecute(pplan, PhysicalSchema(pplan), input)
      [] pplan.op = "Projection" -> ProjectionPlanExecute(pplan, input)
      [] pplan.op = "Limit" -> LimitPlanExecute(pplan, input)
      [] pplan.op = "Offset" -> OffsetPlanExecute(pplan, input)
      [] pplan.op = "Aggregate" ->
            AggregatePlanExecute(pplan, PhysicalSchema(pplan.input), input, order)

\* PhysicalPlan::execute. order is the iteration order of the hash map of
\* groups, for a plan that holds an aggregate with GROUP BY.
RECURSIVE Execute(_, _)
Execute(pplan, order) ==
    CASE pplan.op = "Scan" -> Executed(scan(pplan.source, <<>>), pplan)
      [] pplan.op = "CreateTable" -> Executed(Ok(<<>>), pplan)
      [] pplan.op = "HashJoin" ->
            HashJoinExecute(pplan, Execute(pplan.left, order), Execute(pplan.right, order))
      [] pplan.op \in {"Insert", "Update", "Delete", "Selection", "Projection", "Limit",
                        "Offset", "Aggregate"} ->
            ExecuteNode(pplan, Execute(pplan.input, order), order)

\* The number of groups the aggregate of a plan iterates over (0 without one).
GroupCountOf(pplan, input) ==
    IF ~IsOk(input.res) THEN 0
    ELSE GroupCount(pplan.group_expr, PhysicalSchema(pplan.input), input.res.val)

RECURSIVE PlanGroupCount(_)
PlanGroupCount(pplan) ==
    CASE pplan.op = "Aggregate" -> GroupCountOf(pplan, Execute(pplan.input, <<>>))
      [] pplan.op \in {"Scan", "CreateTable", "HashJoin"} -> 0
      [] OTHER -> PlanGroupCount(pplan.input)

(***************************************************************************)
(* The driver: SimpleDB::run_sql.                                          *)
(***************************************************************************)
\* SQLParser::parse: a text that is no statement fails with ParserError.
parse(sql) == IF sql.kind = "NotSql" THEN Err("ParserError") ELSE Ok(sql)

\* What a call, or one arm of its match, leaves: its result and the catalog.
Returned(res, cat) == [catalog |-> cat, res |-> res]

\* The CreateTable arm: an empty source with the physical plan's schema, stored
\* under the name as written.
CreateTableArm(cat, name, physical_plan) ==
    Returned(Ok(<<>>),
             add_new_table(cat, name_convert(name),
                           CsvTable(PhysicalSchema(physical_plan), <<>>)))

\* The Drop arm: every named table is removed under its name as written.
RECURSIVE DropArm(_, _)
DropArm(cat, names) ==
    IF names = <<>> THEN Returned(Ok(<<>>), cat)
    ELSE DropArm(remove_table(cat, name_convert(Head(names))), Tail(names))

\* A driver that removes the entry before it takes the first execution's
\* batches: a failed execution then loses the table.
ReplaceArmRemoveFirst(cat, table_name, new_table) ==
    LET old_table == name_convert(table_name)
        table_ref == get_table(cat, old_table)
    IN IF ~IsOk(table_ref) THEN Returned(table_ref, cat)
       ELSE IF ~IsOk(new_table) THEN Returned(new_table, remove_table(cat, old_table))
       ELSE Returned(Ok(<<>>),
                     add_new_table(remove_table(cat, old_table), old_table,
                                   CsvTable(table_ref.val.schema, new_table.val)))

\* The Update, Insert and Delete arms: the table is looked up under its name as
\* written (?), the first execution's batches are taken (?), and only then is
\* the entry removed and added again with the old schema.
ReplaceArm(cat, table_name, new_table) ==
    LET old_table == name_convert(table_name)
        table_ref == get_table(cat, old_table)
    IN IF ~IsOk(table_ref) THEN Returned(table_ref, cat)
       ELSE IF ~IsOk(new_table) THEN Returned(new_table, cat)
       ELSE Returned(Ok(<<>>),
                     add_new_table(remove_table(cat, old_table), old_table,
                                   CsvTable(table_ref.val.schema, new_table.val)))

\* match statement2 { ... }
DriverArm(cat, statement2, physical_plan, new_table) ==
    CASE statement2.kind = "Query" -> Returned(Ok(<<>>), cat)
      [] statement2.kind = "CreateTable" ->
            CreateTableArm(cat, statement2.names[1], physical_plan)
      [] statement2.kind = "Drop" -> DropArm(cat, statement2.names)
      [] statement2.kind \in {"Update", "Insert", "Delete"} ->
            ReplaceArm(cat, statement2.names[1], new_table)
      [] OTHER -> Returned(Panic, cat)   \* unimplemented!()

\* ? inside run_sql: the value of an Ok goes on; otherwise run_sql returns
\* with the catalog as it is.
TryReturn(r, cat, F(_)) == IF IsOk(r) THEN F(r.val) ELSE Returned(r, cat)

\* The end of run_sql: new_table2 is returned unless the arm returned early.
Answer(arm, new_table2) == IF ~IsOk(arm.res) THEN arm ELSE Returned(new_table2, arm.catalog)

\* ProjectionPushDown::optimize: a Projection directly over a TableScan is
\* replaced by the scan of the same source with the projection Some of the
\* positions of the projection's expressions in its list, 0, 1, ...; any other
\* plan is returned as it is.
ProjectionPushDown(plan) ==
    IF plan.op = "Projection" /\ plan.input.op = "TableScan"
    THEN [projection |-> <<[i \in DOMAIN plan.exprs |-> i - 1]>>,
          source |-> plan.input.source, op |-> "TableScan"]
    ELSE plan

\* OptimizerRule::optimize of the rule with the name.
ApplyRule(rule, plan) ==
    CASE rule = "ProjectionPushDown" -> ProjectionPushDown(plan)

\* Optimizer::optimize: the rules are applied one after another.
RECURSIVE optimize(_, _)
optimize(rules, plan) ==
    IF rules = <<>> THEN plan
    ELSE optimize(Tail(rules), ApplyRule(Head(rules), plan))

\* What the optimizer was given and what it returned.
Optimized(plan, optimized) == [plan |-> plan, optimized |-> optimized]

\* The two executions and the match. A panic of either execution unwinds
\* before the match is reached.
AfterExecute(cat, statement2, physical_plan, new_table, new_table2) ==
    IF new_table = Panic \/ new_table2 = Panic THEN Returned(Panic, cat)
    ELSE Answer(DriverArm(cat, statement2, physical_plan, new_table), new_table2)

\* The second execution runs the plan as the first left it.
ExecuteTwice(cat, statement2, physical_plan, first, order2) ==
    AfterExecute(cat, statement2, physical_plan, first.res, Execute(first.plan, order2).res)

\* SimpleDB::run_sql. The optimizer's rule list is empty, so the logical plan
\* reaches the physical planner as the SQL planner built it. The physical plan
\* is executed twice and the value returned is the second execution's.
run_sql(cat, sql, order1, order2) ==
    TryReturn(parse(sql), cat,
        LAMBDA statement1 :
            TryReturn(statement_to_plan(cat, statement1), cat,
                LAMBDA logical_plan :
                    TryReturn(create_physical_plan(logical_plan), cat,
                        LAMBDA physical_plan :
                            ExecuteTwice(cat, statement1, physical_plan,
                                         Execute(physical_plan, order1), order2))))

\* The number of groups the statement's aggregate iterates over.
SqlGroupCount(cat, sql) ==
    LET physical_plan ==
            Try(parse(sql),
                LAMBDA statement1 :
                    Try(statement_to_plan(cat, statement1),
                        LAMBDA logical_plan : create_physical_plan(logical_plan)))
    IN IF IsOk(physical_plan) THEN PlanGroupCount(physical_plan.val) ELSE 0

\* SimpleDB::create_csv_table
create_csv_table(cat, table, csv_file) == add_csv_table(cat, table, csv_file)

(***************************************************************************)
(* The statements of the model.                                            *)
(***************************************************************************)
\* Table names as written: t1, T1 and "T1".
TableNames == {<<Ident("t1", FALSE)>>, <<Ident("T1", FALSE)>>, <<Ident("T1", TRUE)>>}

ColumnDef(name, data_type) == [name |-> Ident(name, FALSE), data_type |-> data_type]

\* (id INT, name VARCHAR, age INT) / (id INT)
ColumnLists ==
    {<<ColumnDef("id", "Int"), ColumnDef("name", "Varchar"), ColumnDef("age", "Int")>>,
     <<ColumnDef("id", "Int")>>}

Col(name) == Identifier(Ident(name, FALSE))

\* VALUES (4,'c',40) / VALUES (5,NULL,50) / VALUES (4)
ValueLists ==
    {<<<<Number(4), SingleQuotedString("c"), Number(40)>>>>,
     <<<<Number(5), NullValue, Number(50)>>>>,
     <<<<Number(4)>>>>}

Assignment(name, value) == [value |-> value, id |-> Ident(name, FALSE)]

\* SET age = 5 / SET age = 'z' / SET id = 7
AssignmentLists ==
    {<<Assignment("age", Number(5))>>, <<Assignment("age", SingleQuotedString("z"))>>,
     <<Assignment("id", Number(7))>>}

\* WHERE id = 1, or no WHERE
UpdateSelections ==
    {<<BinaryOp(Col("id"), "Eq", Number(1))>>, <<BinaryOp(Col("age"), "Gt", Number(10))>>, <<>>}

\* WHERE id = 1 / id = 2 / age > 10, or no WHERE
Selections ==
    {<<BinaryOp(Col("id"), "Eq", Number(1))>>, <<BinaryOp(Col("id"), "Eq", Number(2))>>,
     <<BinaryOp(Col("age"), "Gt", Number(10))>>, <<>>}

\* SELECT * / SELECT count(id), sum(age) / SELECT sum(age) ... GROUP BY name /
\* SELECT name, sum(age) ... GROUP BY name / SELECT sum(name) /
\* SELECT * ... LIMIT 2 OFFSET 1 / LIMIT 2 OFFSET 2 / LIMIT 1 / OFFSET 2 /
\* LIMIT id
Selects ==
    {Query(<<Wildcard>>, <<>>, <<>>, <<>>),
     Query(<<Function("count", Col("id")), Function("sum", Col("age"))>>, <<>>, <<>>, <<>>),
     Query(<<Function("sum", Col("age"))>>, <<Col("name")>>, <<>>, <<>>),
     Query(<<Col("name"), Function("sum", Col("age"))>>, <<Col("name")>>, <<>>, <<>>),
     Query(<<Function("sum", Col("name"))>>, <<>>, <<>>, <<>>),
     Query(<<Wildcard>>, <<>>, <<Number(1)>>, <<Number(2)>>),
     Query(<<Wildcard>>, <<>>, <<Number(2)>>, <<Number(2)>>),
     Query(<<Wildcard>>, <<>>, <<>>, <<Number(1)>>),
     Query(<<Wildcard>>, <<>>, <<Number(2)>>, <<>>),
     Query(<<Wildcard>>, <<>>, <<>>, <<Col("id")>>)}

\* WHERE clauses of the SELECTs.
QuerySelections == {<<>>, <<BinaryOp(Col("id"), "Eq", Number(1))>>}

CreateTableStatement(name, columns) ==
    Statement("CreateTable", <<name>>, columns, <<>>, <<>>, <<>>, NoSelect)
DropStatement(names) == Statement("Drop", names, <<>>, <<>>, <<>>, <<>>, NoSelect)
InsertStatement(name, source) ==
    Statement("Insert", <<name>>, <<>>, source, <<>>, <<>>, NoSelect)
UpdateStatement(name, assignments, selection) ==
    Statement("Update", <<name>>, <<>>, <<>>, assignments, selection, NoSelect)
DeleteStatement(name, selection) ==
    Statement("Delete", <<name>>, <<>>, <<>>, <<>>, selection, NoSelect)
QueryStatement(name, selection, select) ==
    Statement("Query", <<name>>, <<>>, <<>>, <<>>, selection, select)
\* A text the parser rejects, and a statement of a kind the planner does not know.
OtherStatements ==
    {Statement("NotSql", <<>>, <<>>, <<>>, <<>>, <<>>, NoSelect),
     Statement("ShowTables", <<>>, <<>>, <<>>, <<>>, <<>>, NoSelect)}

(***************************************************************************)
(* The state machine of the driver.                                        *)
(***************************************************************************)
EmptyCatalog == [n \in {} |-> CsvTable(<<>>, <<>>)]

\* call before any run_sql: n counts the calls made.
NoCall ==
    [n |-> 0, sql |-> Statement("None", <<>>, <<>>, <<>>, <<>>, <<>>, NoSelect),
     res |-> Ok(<<>>), new_table |-> <<>>, before |-> EmptyCatalog]

NoBatches == <<>>

\* opOut: the operator that ran, what it was built with, and what it returned.
OpRan(op, expr, assignments, source, n, projection, join_type, res, order) ==
    [n |-> n, projection |-> projection, source |-> source, op |-> op, assignments |-> assignments,
     expr |-> expr, join_type |-> join_type, res |-> res, aggr_ops |-> <<>>,
     order |-> order]

\* An aggregation that ran: its result and the aggregators as it left them.
OpAggregated(op, ran, order) ==
    [OpRan(op, <<>>, <<>>, <<>>, <<>>, <<>>, <<>>, ran.res, order)
        EXCEPT !.aggr_ops = ran.aggr_ops]

\* opOut before any operator ran.
NotRun == OpRan("none", <<>>, <<>>, <<>>, <<>>, <<>>, <<>>, Ok(<<>>), <<>>)

\* SimpleDB::default(): an empty catalog.
Init ==
    /\ catalog = EmptyCatalog
    /\ call = NoCall
    /\ opIn = NoBatches
    /\ opOut = NotRun

\* A panic ends the process: no call follows it.
Running == call.res # Panic

\* One call of run_sql.
\* The physical plan run_sql builds for the statement.
PhysicalPlanOf(cat, sql) ==
    Try(parse(sql),
        LAMBDA statement1 :
            Try(statement_to_plan(cat, statement1),
                LAMBDA logical_plan : create_physical_plan(logical_plan)))

\* new_table of run_sql: what the first execution of the plan returned, none
\* when run_sql returned before it.
PlanFirstResult(physical_plan, order1) ==
    IF IsOk(physical_plan) THEN <<Execute(physical_plan.val, order1).res>> ELSE <<>>

Call(sql, order1, order2) ==
    LET returned == run_sql(catalog, sql, order1, order2)
    IN /\ Running
       /\ call.n < MaxCalls
       /\ catalog' = returned.catalog
       /\ call' = [n |-> call.n + 1, sql |-> sql, res |-> returned.res, new_table |-> PlanFirstResult(PhysicalPlanOf(catalog, sql), order1),
                   before |-> catalog]
       /\ UNCHANGED <<opIn, opOut>>

\* db.create_csv_table("t1", "data/test_data.csv", ...)
LoadCsv ==
    /\ Running
    /\ catalog' = create_csv_table(catalog, "t1", TestDataCsv)
    /\ call' = [NoCall EXCEPT !.n = call.n]
    /\ UNCHANGED <<opIn, opOut>>

CreateTable ==
    \E name \in TableNames, columns \in ColumnLists :
        Call(CreateTableStatement(name, columns), <<>>, <<>>)

DropTable == \E name \in TableNames : Call(DropStatement(<<name>>), <<>>, <<>>)

Insert ==
    \E name \in TableNames, source \in ValueLists :
        Call(InsertStatement(name, source), <<>>, <<>>)

Update ==
    \E name \in TableNames, assignments \in AssignmentLists, selection \in UpdateSelections :
        Call(UpdateStatement(name, assignments, selection), <<>>, <<>>)

Delete ==
    \E name \in TableNames, selection \in Selections :
        Call(DeleteStatement(name, selection), <<>>, <<>>)

Select ==
    \E name \in TableNames, selection \in QuerySelections, select \in Selects :
        LET sql == QueryStatement(name, selection, select)
        IN \E order1, order2 \in Orders(SqlGroupCount(catalog, sql)) :
              Call(sql, order1, order2)

Other == \E sql \in OtherStatements : Call(sql, <<>>, <<>>)

Next ==
    \/ LoadCsv
    \/ CreateTable
    \/ DropTable
    \/ Insert
    \/ Update
    \/ Delete
    \/ Select
    \/ Other

Spec == Init /\ [][Next]_vars

(***************************************************************************)
(* Operators on their own: PhysicalAggregatePlan::execute and              *)
(* SelectionPlan::execute over every input of a table (k: Utf8, v: Int64)  *)
(* within the bounds, whatever way its rows are split into batches.        *)
(***************************************************************************)
OpSchema == <<NaiveField(<<>>, "k", "Utf8"), NaiveField(<<>>, "v", "Int64")>>

\* The slots a row may hold: two keys or a null key, two values.
OpKeys == {StrV("a"), StrV("b"), NullV}
OpValues == {IntV(1), IntV(2)}

\* A record batch of the table from its rows <<k, v>>.
OpBatch(rows) ==
    [schema |-> ArrowSchema(OpSchema),
     columns |-> <<Array("Utf8", [r \in DOMAIN rows |-> rows[r][1]]),
                   Array("Int64", [r \in DOMAIN rows |-> rows[r][2]])>>]

\* Every sequence of at most MaxOpRows rows.
OpRowSeqs == UNION {[1..n -> OpKeys \X OpValues] : n \in 0..MaxOpRows}

\* The ends of the first b - 1 of b batches over n rows: batches may be empty.
OpCuts(n, b) == {c \in [1..(b - 1) -> 0..n] : \A j \in 1..(b - 2) : c[j] <= c[j + 1]}

\* rows split into b batches at the cuts c.
OpSplit(rows, b, c) ==
    [j \in 1..b |->
        OpBatch(SubSeq(rows, (IF j = 1 THEN 0 ELSE c[j - 1]) + 1,
                             IF j = b THEN Len(rows) ELSE c[j]))]

\* GROUP BY k, and sum(v): the physical expressions and a fresh aggregator.
OpGroupExpr == <<[p |-> "Column", idx |-> 1]>>
OpAggrOps == <<Sum(2)>>

\* WHERE v = 1 and WHERE k = 'a'
OpPredicates ==
    {[op |-> "Eq", left |-> [p |-> "Column", idx |-> 2],
      right |-> [p |-> "Literal", literal |-> ScalarInt64(1)], p |-> "Binary"],
     [op |-> "Eq", left |-> [p |-> "Column", idx |-> 1],
      right |-> [p |-> "Literal", literal |-> ScalarUtf8("a")], p |-> "Binary"]}

\* Every input: the rows in 1..MaxOpBatches batches, or, having no row, no batch.
OpInit ==
    /\ catalog = EmptyCatalog
    /\ call = NoCall
    /\ \E rows \in OpRowSeqs :
          \E b \in (IF rows = <<>> THEN 0 ELSE 1)..MaxOpBatches :
             \E c \in OpCuts(Len(rows), b) : opIn = OpSplit(rows, b, c)
    /\ opOut = NotRun

\* PhysicalAggregatePlan::execute over opIn, the hash map yielding its groups
\* in any order.
RunAggregate ==
    /\ opOut.op = "none"
    /\ \E order \in Orders(GroupCount(OpGroupExpr, OpSchema, opIn)) :
          opOut' = OpAggregated("aggregate",
                                AggregateExecute(OpAggrOps, OpGroupExpr, OpSchema, opIn, order),
                                order)
    /\ UNCHANGED <<catalog, call, opIn>>

\* avg(v), sum(v) GROUP BY k: fresh aggregators.
OpAvgOps == <<Avg(2), Sum(2)>>

\* PhysicalAggregatePlan::execute over opIn with the two aggregators.
RunAverage ==
    /\ opOut.op = "none"
    /\ \E order \in Orders(GroupCount(OpGroupExpr, OpSchema, opIn)) :
          opOut' = OpAggregated("average",
                                AggregateExecute(OpAvgOps, OpGroupExpr, OpSchema, opIn, order),
                                order)
    /\ UNCHANGED <<catalog, call, opIn>>

\* SelectionPlan::execute over opIn.
RunSelection ==
    /\ opOut.op = "none"
    /\ \E expr \in OpPredicates :
          opOut' = OpRan("selection", <<expr>>, <<>>, <<>>, <<>>, <<>>, <<>>,
                         SelectionExecute(expr, OpSchema, opIn), <<>>)
    /\ UNCHANGED <<catalog, call, opIn>>

\* SET v = 5 / SET k = 'z' / SET k = NULL / SET v = NULL
OpAssignmentLists ==
    {<<Assignment("v", Number(5))>>, <<Assignment("k", SingleQuotedString("z"))>>,
     <<Assignment("k", NullValue)>>, <<Assignment("v", NullValue)>>}

\* UpdatePlan::execute over opIn.
RunUpdate ==
    /\ opOut.op = "none"
    /\ \E expr \in OpPredicates, assignments \in OpAssignmentLists :
          opOut' = OpRan("update", <<expr>>, assignments, <<>>, <<>>, <<>>, <<>>,
                         UpdateBatches(opIn, expr, assignments), <<>>)
    /\ UNCHANGED <<catalog, call, opIn>>

\* VALUES ('c',3) / VALUES ('c',3),('d',4) / VALUES ('c')
OpValueLists ==
    {<<<<SingleQuotedString("c"), Number(3)>>>>,
     <<<<SingleQuotedString("c"), Number(3)>>, <<SingleQuotedString("d"), Number(4)>>>>,
     <<<<SingleQuotedString("c")>>>>}

\* An InsertPlan over the scan of a table that holds opIn.
OpInsertPlan(source) ==
    [source |-> source, op |-> "Insert",
     input |-> [source |-> CsvTable(OpSchema, opIn), op |-> "Scan"]]

\* InsertPlan::execute over opIn.
RunInsert ==
    /\ opOut.op = "none"
    /\ \E source \in OpValueLists :
          opOut' = OpRan("insert", <<>>, <<>>, source, <<>>, <<>>, <<>>,
                         Execute(OpInsertPlan(source), <<>>).res, <<>>)
    /\ UNCHANGED <<catalog, call, opIn>>

\* LIMIT n and OFFSET n: from none of the rows to more than the input holds.
OpCounts == 0..(MaxOpRows + 1)

\* PhysicalLimitPlan::execute over opIn.
RunLimit ==
    /\ opOut.op = "none"
    /\ \E n \in OpCounts :
          opOut' = OpRan("limit", <<>>, <<>>, <<>>, <<n>>, <<>>, <<>>, Ok(LimitBatches(opIn, n)), <<>>)
    /\ UNCHANGED <<catalog, call, opIn>>

\* PhysicalOffsetPlan::execute over opIn.
RunOffset ==
    /\ opOut.op = "none"
    /\ \E n \in OpCounts :
          opOut' = OpRan("offset", <<>>, <<>>, <<>>, <<n>>, <<>>, <<>>, Ok(OffsetBatches(opIn, n)), <<>>)
    /\ UNCHANGED <<catalog, call, opIn>>

\* The projection of a scan, an Option<Vec<usize>>: None, Some([0]), Some([1]),
\* Some([1, 0]).
OpProjections == {<<>>, <<<<0>>>>, <<<<1>>>>, <<<<1, 0>>>>}

\* ScanPlan::execute: TableSource::scan of the table that holds opIn.
RunScan ==
    /\ opOut.op = "none"
    /\ \E projection \in OpProjections :
          opOut' = OpRan("scan", <<>>, <<>>, <<>>, <<>>, projection, <<>>,
                         scan(CsvTable(OpSchema, opIn), projection), <<>>)
    /\ UNCHANGED <<catalog, call, opIn>>

OpNext ==
    \/ RunAggregate
    \/ RunAverage
    \/ RunSelection
    \/ RunUpdate
    \/ RunInsert
    \/ RunLimit
    \/ RunOffset
    \/ RunScan

OpSpec == OpInit /\ [][OpNext]_vars

(***************************************************************************)
(* Queries over two tables: person(id, name) and knows(pid, friend), each  *)
(* loaded from a CSV file of at most MaxJoinRows rows.                     *)
(***************************************************************************)
MaxJoinRows == 2

\* The CSV file of person with the rows <<id, name>>.
PersonCsv(rows) ==
    [schema |-> <<[dt |-> "Int64", name |-> "id"], [dt |-> "Utf8", name |-> "name"]>>,
     columns |-> <<Array("Int64", [r \in DOMAIN rows |-> rows[r][1]]),
                   Array("Utf8", [r \in DOMAIN rows |-> rows[r][2]])>>]

\* The CSV file of knows with the rows <<pid, friend>>.
KnowsCsv(rows) ==
    [schema |-> <<[dt |-> "Int64", name |-> "pid"], [dt |-> "Utf8", name |-> "friend"]>>,
     columns |-> <<Array("Int64", [r \in DOMAIN rows |-> rows[r][1]]),
                   Array("Utf8", [r \in DOMAIN rows |-> rows[r][2]])>>]

PersonRows == {<<IntV(1), StrV("a")>>, <<IntV(2), StrV("b")>>}
KnowsRows == {<<IntV(1), StrV("x")>>, <<IntV(2), StrV("y")>>, <<IntV(1), StrV("z")>>}

\* create_csv_table("person", ...) and create_csv_table("knows", ...) on an
\* empty catalog, for every content of the two files.
JoinInit ==
    /\ \E n, m \in 0..MaxJoinRows :
          \E person \in [1..n -> PersonRows], knows \in [1..m -> KnowsRows] :
              catalog = create_csv_table(
                            create_csv_table(EmptyCatalog, "person", PersonCsv(person)),
                            "knows", KnowsCsv(knows))
    /\ call = NoCall
    /\ opIn = NoBatches
    /\ opOut = NotRun

\* FROM person p, knows k and FROM person, knows
Aliased == <<<<Ident("p", FALSE)>>, <<Ident("k", FALSE)>>>>
JoinAliases == {Aliased, <<>>}

CompoundCol(table, name) == CompoundIdentifier(<<Ident(table, FALSE), Ident(name, FALSE)>>)

\* SELECT p.name, k.friend / SELECT name, friend / SELECT person.id, friend
JoinProjections ==
    {<<CompoundCol("p", "name"), CompoundCol("k", "friend")>>,
     <<Col("name"), Col("friend")>>,
     <<CompoundCol("person", "id"), Col("friend")>>}

\* WHERE p.id = k.pid / WHERE id = pid / WHERE pid = id / WHERE id = 1 / no WHERE
JoinSelections ==
    {<<BinaryOp(CompoundCol("p", "id"), "Eq", CompoundCol("k", "pid"))>>,
     <<BinaryOp(Col("id"), "Eq", Col("pid"))>>,
     <<BinaryOp(Col("pid"), "Eq", Col("id"))>>,
     <<BinaryOp(Col("id"), "Eq", Number(1))>>,
     <<>>}

\* SELECT projection FROM person [p], knows [k] [WHERE selection]
JoinStatement(aliases, selection, projection) ==
    Statement("Query", <<<<Ident("person", FALSE)>>, <<Ident("knows", FALSE)>>>>, <<>>, <<>>,
              <<>>, selection,
              [Query(projection, <<>>, <<>>, <<>>) EXCEPT !.aliases = aliases])

\* run_sql of a query over the two tables.
JoinQuery ==
    \E aliases \in JoinAliases, selection \in JoinSelections, projection \in JoinProjections :
        Call(JoinStatement(aliases, selection, projection), <<>>, <<>>)

JoinNext == JoinQuery

JoinSpec == JoinInit /\ [][JoinNext]_vars

(***************************************************************************)
(* person JOIN knows ON expr: parse_join over the scans of the two tables, *)
(* for every ON expression built from three comparisons with AND and OR.   *)
(***************************************************************************)
\* person.id = knows.pid / person.name = knows.friend / person.id > 1
OnAtoms ==
    {BinaryOp(CompoundCol("person", "id"), "Eq", CompoundCol("knows", "pid")),
     BinaryOp(CompoundCol("person", "name"), "Eq", CompoundCol("knows", "friend")),
     BinaryOp(CompoundCol("person", "id"), "Gt", Number(1))}

OnPairs == {BinaryOp(l, op, r) : l \in OnAtoms, op \in {"And", "Or"}, r \in OnAtoms}

OnExprs ==
    OnAtoms \cup OnPairs \cup
    {BinaryOp(l, op, r) : l \in OnAtoms \cup OnPairs, op \in {"And", "Or"},
                          r \in OnAtoms \cup OnPairs}

\* person.id = knows.pid / knows.friend = person.name / person.id > 1 /
\* t1.age = knows.pid
WhereAtoms ==
    {BinaryOp(CompoundCol("person", "id"), "Eq", CompoundCol("knows", "pid")),
     BinaryOp(CompoundCol("knows", "friend"), "Eq", CompoundCol("person", "name")),
     BinaryOp(CompoundCol("person", "id"), "Gt", Number(1)),
     BinaryOp(CompoundCol("t1", "age"), "Eq", CompoundCol("knows", "pid"))}

WherePairs == {BinaryOp(l, "And", r) : l \in WhereAtoms, r \in WhereAtoms}

\* The conjunctions of one, two and three of the comparisons.
WhereExprs ==
    WhereAtoms \cup WherePairs \cup
    {BinaryOp(l, "And", r) : l \in WherePairs, r \in WhereAtoms} \cup
    {BinaryOp(l, "And", r) : l \in WhereAtoms, r \in WherePairs}

\* FROM person, knows / knows, person / person, knows, t1 / t1, knows, person /
\* person, t1, knows
FromTables ==
    {<<"person", "knows">>, <<"knows", "person">>, <<"person", "knows", "t1">>,
     <<"t1", "knows", "person">>, <<"person", "t1", "knows">>}

\* The three tables, person and knows loaded from files without rows.
OnInit ==
    /\ catalog = create_csv_table(
                     create_csv_table(create_csv_table(EmptyCatalog, "person", PersonCsv(<<>>)),
                                      "knows", KnowsCsv(<<>>)),
                     "t1", TestDataCsv)
    /\ call = NoCall
    /\ opIn = NoBatches
    /\ opOut = NotRun

\* SQLPlanner::parse_table_join for INNER JOIN and LEFT OUTER JOIN: the right
\* table is parsed and parse_join builds the plan.
RunParseJoin ==
    /\ opOut.op = "none"
    /\ \E expr \in OnExprs, join_type \in {"Inner", "Left"} :
          opOut' = OpRan("parse_join", <<expr>>, <<>>, <<>>, <<>>, <<>>, <<join_type>>,
                         parse_join(TableScan(catalog["person"]), TableScan(catalog["knows"]),
                                    <<expr>>, join_type),
                         <<>>)
    /\ UNCHANGED <<catalog, call, opIn>>

\* SQLPlanner::set_expr_to_plan up to the selection: FROM tables WHERE expr.
RunPlanSelection ==
    /\ opOut.op = "none"
    /\ \E expr \in WhereExprs, tables \in FromTables :
          opOut' = OpRan("plan_selection", <<expr>>, <<>>, tables, <<>>, <<>>, <<>>,
                         Try(plan_from_tables(catalog, [t \in DOMAIN tables |->
                                                           <<Ident(tables[t], FALSE)>>]),
                             LAMBDA plans : plan_selection(<<expr>>, plans)),
                         <<>>)
    /\ UNCHANGED <<catalog, call, opIn>>

\* SELECT * / SELECT name / SELECT age, id / SELECT name, sum(age) GROUP BY
\* name / SELECT * LIMIT 1
OptSelects ==
    {Query(<<Wildcard>>, <<>>, <<>>, <<>>),
     Query(<<Col("name")>>, <<>>, <<>>, <<>>),
     Query(<<Col("age"), Col("id")>>, <<>>, <<>>, <<>>),
     Query(<<Col("name"), Function("sum", Col("age"))>>, <<Col("name")>>, <<>>, <<>>),
     Query(<<Wildcard>>, <<>>, <<>>, <<Number(1)>>)}

\* The optimizer as run_sql builds it, without rules, and with the rule.
RuleLists == {<<>>, <<"ProjectionPushDown">>}

\* Optimizer::optimize over the plan of SELECT ... FROM t1 [WHERE id = 1].
RunOptimize ==
    /\ opOut.op = "none"
    /\ \E select \in OptSelects, selection \in QuerySelections, rules \in RuleLists :
          opOut' = OpRan("optimize", selection, <<>>, rules, <<>>, select.projection, <<>>,
                         Try(statement_to_plan(catalog,
                                 QueryStatement(<<Ident("t1", FALSE)>>, selection, select)),
                             LAMBDA plan : Ok(Optimized(plan, optimize(rules, plan)))),
                         <<>>)
    /\ UNCHANGED <<catalog, call, opIn>>

OnNext == RunParseJoin \/ RunPlanSelection \/ RunOptimize

OnSpec == OnInit /\ [][OnNext]_vars

(***************************************************************************)
(* Properties of the driver (checked under Spec).                          *)
(***************************************************************************)
\* The name the SQL planner resolves for the i-th table the last call names.
ResolvedName(i) == normalize_sql_object_name(call.sql.names[i])

\* C1: when run_sql returns an error, whatever the step that failed, the
\* catalog holds the same names with the same sources as before the call.
C1_ErrorLeavesCatalog == call.res.tag = "Err" => catalog = call.before

\* C1 witness: an INSERT was planned against an existing table and executed,
\* and then failed at the driver's own lookup of the table.
C1_FailedAtDriverLookup ==
    /\ call.sql.kind = "Insert"
    /\ IsOk(statement_to_plan(call.before, call.sql))
    /\ call.res = Err("NoSuchTable")
    /\ DOMAIN call.before # {}
    /\ catalog = call.before

\* C2: after a successful UPDATE, INSERT or DELETE on T, get_table(T) gives a
\* source holding the batches the plan produced and the schema T had before.
C2_ReplacementUnderTarget ==
    (call.sql.kind \in {"Update", "Insert", "Delete"} /\ IsOk(call.res)) =>
        /\ IsOk(get_table(catalog, ResolvedName(1)))
        /\ catalog[ResolvedName(1)].batches = call.res.val
        /\ catalog[ResolvedName(1)].schema = call.before[ResolvedName(1)].schema

\* C3: after a successful DROP TABLE, get_table fails with NoSuchTable for the
\* name the planner resolved for each named table.
C3_DroppedIsGone ==
    (call.sql.kind = "Drop" /\ IsOk(call.res)) =>
        \A i \in DOMAIN call.sql.names :
            get_table(catalog, ResolvedName(i)) = Err("NoSuchTable")

\* C4: after a successful CREATE TABLE n(...), the catalog holds under the
\* normalized name of n a source with no batch and the statement's columns.
C4_CreatedUnderNormalizedName ==
    (call.sql.kind = "CreateTable" /\ IsOk(call.res)) =>
        /\ IsOk(get_table(catalog, ResolvedName(1)))
        /\ catalog[ResolvedName(1)].batches = <<>>
        /\ catalog[ResolvedName(1)].schema = columns_to_naive_schema(call.sql.columns)

\* The rows the table the last call names held before the call.
RowsBefore == AllRows(call.before[ResolvedName(1)].batches)

\* The last call is this SELECT, without WHERE, over a table that exists.
IsSelect(projection, group_by) ==
    /\ call.sql.kind = "Query"
    /\ call.sql.select.projection = projection
    /\ call.sql.select.group_by = group_by
    /\ call.sql.selection = <<>>
    /\ ResolvedName(1) \in DOMAIN call.before

\* The sum of the non-null slots of column c over the rows whose index is in idxs.
ColumnSum(rows, c, idxs) ==
    SeqSum([i \in DOMAIN rows |-> IF i \in idxs THEN SumOf(rows[i][c]) ELSE 0])

\* C5: SELECT count(id), sum(age) without GROUP BY returns exactly one row:
\* the number of non-null ids and the sum of the non-null ages of the table.
C5_CountAndSum ==
    IsSelect(<<Function("count", Col("id")), Function("sum", Col("age"))>>, <<>>) =>
        /\ IsOk(call.res)
        /\ AllRows(call.res.val) =
              <<<<IntV(Cardinality({i \in DOMAIN RowsBefore : ~RowsBefore[i][1].null})),
                  IntV(ColumnSum(RowsBefore, 3, DOMAIN RowsBefore))>>>>

\* C6: SELECT name, sum(age) ... GROUP BY name returns one row per group,
\* holding the group's name and the sum of the ages of the group's rows.
C6_KeyAndSumPerGroup ==
    (IsSelect(<<Col("name"), Function("sum", Col("age"))>>, <<Col("name")>>)
     /\ RowsBefore # <<>>) =>
        /\ IsOk(call.res)
        /\ Len(AllRows(call.res.val)) =
              Cardinality({RowsBefore[i][2] : i \in DOMAIN RowsBefore} \ {NullV})
        /\ Range(AllRows(call.res.val)) =
              {<<key, IntV(ColumnSum(RowsBefore, 3,
                                     {i \in DOMAIN RowsBefore : RowsBefore[i][2] = key}))>> :
                 key \in {RowsBefore[i][2] : i \in DOMAIN RowsBefore} \ {NullV}}

\* Whether the predicate, evaluated on this row alone, is true.
RowSatisfies(pexpr, aschema, row) ==
    LET batch == [schema |-> aschema,
                  columns |-> [c \in DOMAIN row |-> Array(aschema[c].dt, <<row[c]>>)]]
    IN IsOk(evaluate(pexpr, batch)) /\ evaluate(pexpr, batch).val.vals = <<BoolV(TRUE)>>

\* The WHERE of the last call, lowered against the table as it was.
CallCondition ==
    create_physical_expression(sql_to_expr(call.sql.selection[1]),
                               call.before[ResolvedName(1)].schema).val

\* C10: after a successful DELETE FROM T WHERE p, T holds exactly the rows it
\* held for which p is not true, in order, however they lie in batches.
C10_DeleteRemovesMatching ==
    (call.sql.kind = "Delete" /\ IsOk(call.res)
     /\ name_convert(call.sql.names[1]) = ResolvedName(1)) =>
        AllRows(catalog[ResolvedName(1)].batches) =
            SelectSeq(RowsBefore,
                      LAMBDA row : ~RowSatisfies(CallCondition,
                                        ArrowSchema(call.before[ResolvedName(1)].schema), row))

\* C14: a SELECT * ... WHERE or a DELETE ... WHERE, on whatever table the
\* statements before it left, returns a result or an error: it never panics.
C14_NoPanicOnWhere ==
    (/\ call.sql.kind \in {"Query", "Delete"}
     /\ call.sql.selection # <<>>
     /\ call.sql.kind = "Query" => call.sql.select.projection = <<Wildcard>>) =>
        call.res # Panic

\* C15: an INSERT whose VALUES tuple has not as many values as the target has
\* columns returns LogicalError or NotSupported and leaves the catalog as it was.
C15_WrongArityIsLogicalError ==
    (/\ call.sql.kind = "Insert"
     /\ ResolvedName(1) \in DOMAIN call.before
     /\ name_convert(call.sql.names[1]) = ResolvedName(1)
     /\ \E t \in DOMAIN call.sql.source :
            Len(call.sql.source[t]) # Len(call.before[ResolvedName(1)].schema)) =>
        /\ call.res.tag = "Err"
        /\ call.res.err \in {"LogicalError", "NotSupported"}
        /\ catalog = call.before

(***************************************************************************)
(* Properties of the operators (checked under OpSpec).                     *)
(***************************************************************************)
InRows == AllRows(opIn)
OutRows == AllRows(opOut.res.val)

Aggregated == opOut.op = "aggregate" /\ IsOk(opOut.res)

\* The distinct non-null keys of the input.
InKeys == {InRows[i][1] : i \in DOMAIN InRows} \ {NullV}

\* The sum of the per-group results.
OutSum == SeqSum([i \in DOMAIN OutRows |-> OutRows[i][1].i])

\* C7: GROUP BY emits one row per distinct non-null key, and the per-group
\* sums add up to the sum over the input rows whose key is not null.
C7_SumsPartitionKeyedRows ==
    Aggregated =>
        /\ Len(OutRows) = Cardinality(InKeys)
        /\ OutSum = ColumnSum(InRows, 2, {i \in DOMAIN InRows : ~InRows[i][1].null})

\* C7 as stated: the per-group sums add up to the sum over all input rows.
C7_SumsPartitionAllRows ==
    Aggregated =>
        /\ Len(OutRows) = Cardinality(InKeys)
        /\ OutSum = ColumnSum(InRows, 2, DOMAIN InRows)

\* C7 witness: two batches, two groups and a row with a null key were aggregated.
C7_TwoGroupsAndNullKey ==
    /\ Aggregated
    /\ Len(opIn) = 2
    /\ Cardinality(InKeys) = 2
    /\ \E i \in DOMAIN InRows : InRows[i][1].null
    /\ Len(OutRows) = 2

\* C8: GROUP BY emits its groups in the order in which their keys first
\* appear in the input.
C8_FirstSeenOrder ==
    Aggregated =>
        LET keys == FirstSeen([i \in DOMAIN InRows |-> InRows[i][1]], <<>>)
        IN OutRows = [g \in DOMAIN keys |->
                        <<IntV(ColumnSum(InRows, 2,
                                         {i \in DOMAIN InRows : InRows[i][1] = keys[g]}))>>]

\* Whether a is b with some of its elements left out.
RECURSIVE IsSubSeq(_, _)
IsSubSeq(a, b) ==
    IF a = <<>> THEN TRUE
    ELSE IF b = <<>> THEN FALSE
    ELSE IF Head(a) = Head(b) THEN IsSubSeq(Tail(a), Tail(b))
    ELSE IsSubSeq(a, Tail(b))

\* C9: SelectionPlan::execute emits only input rows for which the predicate,
\* evaluated on that row, is true, in input order, each at most once.
C9_EmitsOnlyMatchingRows ==
    (opOut.op = "selection" /\ IsOk(opOut.res)) =>
        IsSubSeq(OutRows,
                 SelectSeq(InRows,
                           LAMBDA row : RowSatisfies(opOut.expr[1], ArrowSchema(OpSchema), row)))

\* The slot an assigned literal stands for.
LiteralSlot(value) ==
    CASE value.k = "Number" -> IntV(value.n)
      [] value.k = "SingleQuotedString" -> StrV(value.s)
      [] value.k = "Null" -> NullV

\* Whether the UPDATE that ran assigns column c, and whether its condition is
\* true of a row.
OpAssigned(c) == \E a \in DOMAIN opOut.assignments : opOut.assignments[a].id.value = OpSchema[c].name
OpMatches(row) == RowSatisfies(opOut.expr[1], ArrowSchema(OpSchema), row)

\* The cells <<batch, row, column>> of the input.
OpCells ==
    {<<b, r, c>> \in (DOMAIN opIn) \X (1..MaxOpRows) \X (DOMAIN OpSchema) :
        r <= num_rows(opIn[b])}

\* C11: UpdatePlan::execute returns a value, in which every assigned column of
\* every row the condition is true of holds the assigned literal, null for NULL.
C11_UpdateWritesLiteral ==
    opOut.op = "update" =>
        /\ IsOk(opOut.res)
        /\ \A cell \in OpCells :
              (OpAssigned(cell[3]) /\ OpMatches(BatchRows(opIn[cell[1]])[cell[2]])) =>
                  opOut.res.val[cell[1]].columns[cell[3]].vals[cell[2]] =
                      LiteralSlot(opOut.assignments[1].value)

\* C12: UPDATE keeps the number and order of batches and rows, every row the
\* condition is not true of, and every column that is not assigned.
C12_UpdateFrame ==
    (opOut.op = "update" /\ IsOk(opOut.res)) =>
        /\ Len(opOut.res.val) = Len(opIn)
        /\ \A b \in DOMAIN opIn : num_rows(opOut.res.val[b]) = num_rows(opIn[b])
        /\ \A cell \in OpCells :
              ~(OpAssigned(cell[3]) /\ OpMatches(BatchRows(opIn[cell[1]])[cell[2]])) =>
                  opOut.res.val[cell[1]].columns[cell[3]].vals[cell[2]] =
                      opIn[cell[1]].columns[cell[3]].vals[cell[2]]

\* C12 witness: an UPDATE over two batches changed a row, and left a row whose
\* condition is null and a row whose condition is false.
C12_UpdatedSomeKeptOthers ==
    /\ opOut.op = "update" /\ IsOk(opOut.res)
    /\ Len(opIn) = 2
    /\ AllRows(opOut.res.val) # InRows
    /\ \E i \in DOMAIN InRows : InRows[i][1].null
    /\ \E i \in DOMAIN InRows : InRows[i][1] = StrV("b")
    /\ opOut.expr[1].left.idx = 1

\* The rows a VALUES list stands for, in statement order.
ValueRows(source) ==
    [t \in DOMAIN source |-> [c \in DOMAIN source[t] |-> LiteralSlot(source[t][c])]]

\* C13: InsertPlan::execute emits the batches of the table, unchanged and in
\* order, then the rows of the VALUES tuples in statement order.
C13_InsertAppends ==
    (opOut.op = "insert" /\ IsOk(opOut.res)) =>
        /\ Len(opOut.res.val) >= Len(opIn)
        /\ SubSeq(opOut.res.val, 1, Len(opIn)) = opIn
        /\ AllRows(SubSeq(opOut.res.val, Len(opIn) + 1, Len(opOut.res.val))) =
              ValueRows(opOut.source)
        /\ Len(OutRows) = Len(InRows) + Len(opOut.source)

\* C13 witness: two tuples were inserted into a table of two batches with rows.
C13_InsertedTwoTuples ==
    /\ opOut.op = "insert" /\ IsOk(opOut.res)
    /\ Len(opOut.source) = 2
    /\ Len(opIn) = 2 /\ \A b \in DOMAIN opIn : num_rows(opIn[b]) > 0
    /\ Len(OutRows) = Len(InRows) + 2

Min(a, b) == IF a <= b THEN a ELSE b

\* C16: PhysicalLimitPlan emits the first min(n, rows) rows of its input and
\* PhysicalOffsetPlan the rows after the first n (max(0, rows - n) of them),
\* in input order, however the rows are split into batches.
C16_LimitAndOffsetCounts ==
    /\ opOut.op = "limit" =>
            /\ Len(OutRows) = Min(opOut.n[1], Len(InRows))
            /\ OutRows = SubSeq(InRows, 1, Len(OutRows))
    /\ opOut.op = "offset" =>
            /\ Len(OutRows) = (IF Len(InRows) > opOut.n[1] THEN Len(InRows) - opOut.n[1] ELSE 0)
            /\ OutRows = SubSeq(InRows, Len(InRows) - Len(OutRows) + 1, Len(InRows))

\* C16 witness: a limit or an offset that ends inside the second of two
\* batches, each of which holds rows.
C16_CutInSecondBatch ==
    /\ opOut.op \in {"limit", "offset"}
    /\ Len(opIn) = 2 /\ \A b \in DOMAIN opIn : num_rows(opIn[b]) > 0
    /\ opOut.n[1] > num_rows(opIn[1]) /\ opOut.n[1] < Len(InRows)
    /\ Len(OutRows) \in {opOut.n[1], Len(InRows) - opOut.n[1]}

\* A SELECT * without WHERE, on a table of the catalog, with OFFSET k LIMIT n.
IsSlice(k, n) ==
    /\ IsSelect(<<Wildcard>>, <<>>)
    /\ call.sql.select.offset = <<Number(k)>>
    /\ call.sql.select.limit = <<Number(n)>>

\* The rows the execution of the body's plan returns.
BodyRows(body) == AllRows(Execute(create_physical_plan(body).val, <<>>).res.val)

\* C17: SELECT * ... LIMIT n OFFSET k is planned as Limit(n) over Offset(k)
\* over the plan of the body, and returns the rows k+1 .. k+n of the body's
\* result (as many of them as there are), however the rows are split into
\* batches; the body's result is the table's rows when the table's batches
\* have the columns of its schema.
C17_LimitOverOffset ==
    \A k, n \in 0..2 :
        IsSlice(k, n) =>
            LET plan == statement_to_plan(call.before, call.sql)
                body == set_expr_to_plan(call.before, call.sql.names, <<>>, call.sql.select)
            IN /\ IsOk(plan) /\ IsOk(body)
               /\ plan.val.op = "Limit" /\ plan.val.n = n
               /\ plan.val.input.op = "Offset" /\ plan.val.input.n = k
               /\ plan.val.input.input = body.val
               /\ IsOk(call.res)
               /\ AllRows(call.res.val) =
                      SubSeq(BodyRows(body.val), k + 1, Min(k + n, Len(BodyRows(body.val))))
               /\ (\A b \in DOMAIN call.before[ResolvedName(1)].batches :
                      Len(call.before[ResolvedName(1)].batches[b].columns) =
                          Len(call.before[ResolvedName(1)].schema)) =>
                      BodyRows(body.val) = RowsBefore

\* C17 witness: LIMIT 2 OFFSET 2 over a table of two batches returned two
\* rows, one from each batch.
C17_SliceAcrossBatches ==
    /\ IsSlice(2, 2)
    /\ Len(call.before[ResolvedName(1)].batches) = 2
    /\ IsOk(call.res)
    /\ Len(call.res.val) = 2 /\ Len(AllRows(call.res.val)) = 2

\* The physical plan run_sql builds for the statement of the call.
CallPlan ==
    LET plan == statement_to_plan(call.before, call.sql)
    IN IF IsOk(plan) THEN create_physical_plan(plan.val) ELSE plan

\* A batch has one column per field of the schema, of the field's data type,
\* and its columns are equally long.
MatchesSchema(batch, schema) ==
    /\ Len(batch.columns) = Len(schema)
    /\ Len(batch.schema) = Len(schema)
    /\ \A i \in DOMAIN schema :
          i \in DOMAIN batch.columns /\ i \in DOMAIN batch.schema =>
              batch.columns[i].dt = schema[i].dt /\ batch.schema[i].dt = schema[i].dt
    /\ \A i, j \in DOMAIN batch.columns :
          Len(batch.columns[i].vals) = Len(batch.columns[j].vals)

\* The operators of a physical plan, the root first.
RECURSIVE PlanNodes(_)
PlanNodes(pplan) ==
    IF pplan.op \in {"Scan", "CreateTable"} THEN <<pplan>>
    ELSE <<pplan>> \o PlanNodes(pplan.input)

\* C18: for every operator of the physical plan of a query, every batch its
\* execute() returns has the fields of its schema(): as many, of the same data
\* types in the same order, and columns of one length. So has every batch the
\* query returns, against the schema() of the root.
C18_BatchesMatchSchema ==
    (call.sql.kind = "Query" /\ IsOk(CallPlan)) =>
        /\ IsOk(call.res) =>
              \A b \in DOMAIN call.res.val :
                  MatchesSchema(call.res.val[b], PhysicalSchema(CallPlan.val))
        /\ \A i \in DOMAIN PlanNodes(CallPlan.val) :
              LET node == PlanNodes(CallPlan.val)[i]
              IN \A order \in Orders(PlanGroupCount(node)) :
                    IsOk(Execute(node, order).res) =>
                        \A b \in DOMAIN Execute(node, order).res.val :
                            MatchesSchema(Execute(node, order).res.val[b], PhysicalSchema(node))

\* C19: scan returns the table's batches with the columns of schema(), or,
\* given a projection, with exactly the projected columns in the order of the
\* index list.
C19_ScanReturnsProjectedColumns ==
    opOut.op = "scan" =>
        /\ IsOk(opOut.res)
        /\ Len(opOut.res.val) = Len(opIn)
        /\ \A b \in DOMAIN opOut.res.val :
              LET fields == IF opOut.projection = <<>> THEN [i \in DOMAIN OpSchema |-> i]
                            ELSE [i \in DOMAIN opOut.projection[1] |->
                                    opOut.projection[1][i] + 1]
              IN opOut.res.val[b].columns = [i \in DOMAIN fields |-> opIn[b].columns[fields[i]]]

\* SELECT p.name, k.friend FROM person p, knows k WHERE p.id = k.pid
AliasJoin ==
    JoinStatement(Aliased,
                  <<BinaryOp(CompoundCol("p", "id"), "Eq", CompoundCol("k", "pid"))>>,
                  <<CompoundCol("p", "name"), CompoundCol("k", "friend")>>)

\* The name and the friend of every pair of a person row and a knows row of
\* the catalog with id = pid: person rows in order, the knows rows in order
\* for each.
EquiJoin(cat) ==
    LET person == AllRows(cat["person"].batches)
        knows == AllRows(cat["knows"].batches)
    IN Flatten([l \in DOMAIN person |->
           LET matched == SelectSeq(knows, LAMBDA r : r[1] = person[l][1])
           IN [m \in DOMAIN matched |-> <<person[l][2], matched[m][2]>>]])

\* C20: SELECT p.name, k.friend FROM person p, knows k WHERE p.id = k.pid is
\* planned as a projection over the inner join of the two scans on (id, pid),
\* with no filter left, and returns the name and friend of the joined rows.
C20_AliasJoinRuns ==
    call.sql = AliasJoin =>
        LET plan == statement_to_plan(call.before, call.sql)
        IN /\ IsOk(plan)
           /\ plan.val.op = "Projection"
           /\ plan.val.input.op = "Join"
           /\ plan.val.input.join_type = "Inner"
           /\ plan.val.input.left.op = "TableScan"
           /\ plan.val.input.right.op = "TableScan"
           /\ plan.val.input.on = <<<<sql_to_expr(CompoundCol("p", "id")),
                                      sql_to_expr(CompoundCol("k", "pid"))>>>>
           /\ IsOk(call.res)
           /\ AllRows(call.res.val) = EquiJoin(call.before)

\* The operands of the AND nodes at the root of an expression, left to right.
RECURSIVE Conjuncts(_)
Conjuncts(expr) ==
    IF expr.e = "BinaryExpr" /\ expr.op = "And"
    THEN Conjuncts(expr.left) \o Conjuncts(expr.right)
    ELSE <<expr>>

IsKey(expr) ==
    expr.e = "BinaryExpr" /\ expr.op = "Eq" /\ expr.left.e = "Column" /\ expr.right.e = "Column"

\* C21: for INNER JOIN ... ON expr the plan is built, its join keys are
\* exactly the column = column conjuncts of expr and the conjuncts of its
\* Filter exactly the other conjuncts of expr, in the order of expr.
C21_KeysAndFiltersAreTheConjuncts ==
    (opOut.op = "parse_join" /\ opOut.join_type = <<"Inner">>) =>
        LET conjuncts == Conjuncts(sql_to_expr(opOut.expr[1]))
            keys == SelectSeq(conjuncts, IsKey)
            filters == SelectSeq(conjuncts, LAMBDA c : ~IsKey(c))
            joined == IF opOut.res.val.op = "Filter" THEN opOut.res.val.input
                      ELSE opOut.res.val
        IN /\ IsOk(opOut.res)
           /\ joined.op \in {"Join", "CrossJoin"}
           /\ joined.on = [i \in DOMAIN keys |-> <<keys[i].left, keys[i].right>>]
           /\ (opOut.res.val.op = "Filter") = (filters # <<>>)
           /\ opOut.res.val.op = "Filter" => Conjuncts(opOut.res.val.predicate) = filters

\* The two columns of a column = column comparison, whatever their order.
Sides(expr) == {expr.left, expr.right}

\* A conjunct links the table to the tables joined so far: it equates a
\* column of the table with a column of one of them.
Links(conjunct, joined_tables, table) ==
    /\ IsKey(conjunct)
    /\ \E l \in joined_tables :
          {conjunct.left.table, conjunct.right.table} = {<<l>>, <<table>>}

\* Every table of FROM after the first is linked to the ones before it.
AllLinked(conjuncts, tables) ==
    \A t \in 2..Len(tables) :
        \E c \in DOMAIN conjuncts :
            Links(conjuncts[c], {tables[l] : l \in 1..(t - 1)}, tables[t])

\* Inner joins nested to the left over the scans of the tables, in order.
RECURSIVE IsLeftDeep(_, _)
IsLeftDeep(plan, tables) ==
    IF Len(tables) = 1 THEN plan = TableScan(catalog[tables[1]])
    ELSE /\ plan.op = "Join"
         /\ plan.join_type = "Inner"
         /\ plan.on # <<>>
         /\ plan.right = TableScan(catalog[tables[Len(tables)]])
         /\ IsLeftDeep(plan.left, SubSeq(tables, 1, Len(tables) - 1))

\* The keys of the joins of a chain, each as its two columns.
RECURSIVE ChainKeys(_)
ChainKeys(plan) ==
    IF plan.op # "Join" THEN {}
    ELSE {{plan.on[i][1], plan.on[i][2]} : i \in DOMAIN plan.on} \cup ChainKeys(plan.left)

\* The keys each join of a chain links its right table with.
RECURSIVE KeysLinkRight(_, _)
KeysLinkRight(plan, tables) ==
    Len(tables) > 1 =>
        /\ \A i \in DOMAIN plan.on :
              {plan.on[i][1].table, plan.on[i][2].table} \in
                  {{<<tables[l]>>, <<tables[Len(tables)]>>} : l \in 1..(Len(tables) - 1)}
        /\ KeysLinkRight(plan.left, SubSeq(tables, 1, Len(tables) - 1))

\* C22: FROM tables WHERE conjunction fails with NotImplemented when some
\* table has no column = column conjunct linking it to the tables before it;
\* otherwise the plan is the left-deep chain of inner joins of the tables,
\* each join on conjuncts linking its right table, under a Filter of the
\* conjuncts that are no join keys: every conjunct is a key or in the Filter
\* and none is both.
C22_JoinsTakeTheLinkingConjuncts ==
    opOut.op = "plan_selection" =>
        LET conjuncts == Conjuncts(sql_to_expr(opOut.expr[1]))
            chain == IF opOut.res.val.op = "Filter" THEN opOut.res.val.input
                     ELSE opOut.res.val
            residual == IF opOut.res.val.op = "Filter"
                        THEN Range(Conjuncts(opOut.res.val.predicate)) ELSE {}
        IN IF ~AllLinked(conjuncts, opOut.source) THEN opOut.res = Err("NotImplemented")
           ELSE /\ IsOk(opOut.res)
                /\ IsLeftDeep(chain, opOut.source)
                /\ KeysLinkRight(chain, opOut.source)
                /\ \A c \in Range(conjuncts) :
                      (c \in residual) = ~(IsKey(c) /\ Sides(c) \in ChainKeys(chain))
                /\ residual \subseteq Range(conjuncts)
                /\ ChainKeys(chain) \subseteq {Sides(c) : c \in {k \in Range(conjuncts) : IsKey(k)}}

\* C23: the plan the optimizer returns has the schema of the plan it was
\* given.
C23_OptimizeKeepsSchema ==
    (opOut.op = "optimize" /\ IsOk(opOut.res)) =>
        LogicalSchema(opOut.res.val.optimized) = LogicalSchema(opOut.res.val.plan)

\* The input rows of a group.
GroupRows(key) == {i \in DOMAIN InRows : InRows[i][1] = key}

\* The sum, and the average as the fraction in lowest terms, of v over the
\* rows of a group alone.
GroupSum(key) == IntV(ColumnSum(InRows, 2, GroupRows(key)))
GroupAvg(key) ==
    LET total == ColumnSum(InRows, 2, GroupRows(key))
        rows == Cardinality(GroupRows(key))
        d == CHOOSE g \in 1..rows :
                /\ total % g = 0 /\ rows % g = 0
                /\ \A h \in 1..rows : (total % h = 0 /\ rows % h = 0) => h <= g
    IN [null |-> FALSE, i |-> total \div d, s |-> "", den |-> rows \div d]

\* The output row of a group computed from the rows of that group alone.
GroupResult(key) ==
    IF opOut.op = "average" THEN <<GroupAvg(key), GroupSum(key)>> ELSE <<GroupSum(key)>>

\* C24: when a GROUP BY aggregation returns, every aggregator is in its
\* initial state (sum 0, count 0), and the rows returned are, one for each
\* group, the results over the rows of that group alone, as they are when
\* every group starts from the initial state.
C24_GroupsStartAndEndCleared ==
    (opOut.op \in {"aggregate", "average"} /\ opOut.res # Panic) =>
        /\ \A i \in DOMAIN opOut.aggr_ops :
              /\ opOut.aggr_ops[i].acc = 0
              /\ opOut.aggr_ops[i].fun = "avg" => opOut.aggr_ops[i].cnt = 0
        /\ Len(opOut.aggr_ops) = (IF opOut.op = "average" THEN 2 ELSE 1)
        /\ IsOk(opOut.res) =>
              /\ Len(OutRows) = Cardinality(InKeys)
              /\ \A key \in InKeys : \E j \in DOMAIN OutRows : OutRows[j] = GroupResult(key)
              /\ \A j \in DOMAIN OutRows : \E key \in InKeys : OutRows[j] = GroupResult(key)

\* C24 witness: two groups were averaged and summed, one of two rows whose
\* average is 3/2, visited after the other.
C24_SecondGroupAveraged ==
    /\ opOut.op = "average"
    /\ IsOk(opOut.res)
    /\ Cardinality(InKeys) = 2
    /\ Len(OutRows) = 2
    /\ OutRows[2][1].den = 2
    /\ OutRows[2][2] = IntV(3)

\* C25: the value run_sql returns, the second execution's, is the value of
\* the first execution, and after UPDATE, INSERT and DELETE its batches are
\* the ones stored for the table.
C25_SecondExecutionEqualsFirst ==
    (call.n > 0 /\ call.new_table # <<>> /\ IsOk(call.res)) =>
        /\ call.res = call.new_table[1]
        /\ call.sql.kind \in {"Update", "Insert", "Delete"} =>
              catalog[name_convert(call.sql.names[1])].batches = call.res.val

\* The row indices the DELETE of the call handed to try_delete: the true
\* positions of its condition over the first batch of the target table.
DeletedIndices(pplan) ==
    TruePositions(evaluate(pplan.conditions, pplan.source.batches[1]).val)

\* The DELETE of the call reached try_delete.
DeleteReached(physical_plan) ==
    /\ call.n > 0
    /\ call.sql.kind = "Delete"
    /\ IsOk(physical_plan)
    /\ physical_plan.val.source.batches # <<>>
    /\ IsOk(evaluate(physical_plan.val.conditions, physical_plan.val.source.batches[1]))
    /\ evaluate(physical_plan.val.conditions, physical_plan.val.source.batches[1]).val.dt
          = "Boolean"

\* C26: in try_delete no batch of the table has fewer rows than there are
\* row indices to delete, so array.len() - row_indices_to_delete.len() does
\* not underflow and the DELETE does not panic.
C26_DeleteCapacityNeverUnderflows ==
    DeleteReached(PhysicalPlanOf(call.before, call.sql)) =>
        /\ \A b \in DOMAIN PhysicalPlanOf(call.before, call.sql).val.source.batches :
              Len(BatchRows(PhysicalPlanOf(call.before, call.sql).val.source.batches[b])) >=
                  Cardinality(DeletedIndices(PhysicalPlanOf(call.before, call.sql).val))
        /\ call.res # Panic

\* The position of the column with the name in the schema of the call's table.
ColumnOf(name) ==
    CHOOSE c \in DOMAIN call.before[ResolvedName(1)].schema :
        call.before[ResolvedName(1)].schema[c].name = name

\* The UPDATE of the call succeeded on the table the planner resolved.
Updated ==
    /\ call.sql.kind = "Update"
    /\ IsOk(call.res)
    /\ name_convert(call.sql.names[1]) = ResolvedName(1)

\* C27: after a successful UPDATE every batch of the target holds, in every
\* row the condition was true of, the assigned literal in the assigned column.
C27_UpdateReachesEveryBatch ==
    Updated =>
        /\ Len(catalog[ResolvedName(1)].batches) = Len(call.before[ResolvedName(1)].batches)
        /\ \A b \in DOMAIN call.before[ResolvedName(1)].batches :
              \A r \in DOMAIN BatchRows(call.before[ResolvedName(1)].batches[b]) :
                \A a \in DOMAIN call.sql.assignments :
                  RowSatisfies(CallCondition, ArrowSchema(call.before[ResolvedName(1)].schema),
                               BatchRows(call.before[ResolvedName(1)].batches[b])[r]) =>
                      BatchRows(catalog[ResolvedName(1)].batches[b])[r]
                              [ColumnOf(call.sql.assignments[a].id.value)] =
                          LiteralSlot(call.sql.assignments[a].value)

\* C28: an UPDATE, INSERT or DELETE whose plan was built and whose first
\* execution succeeded returns Ok: the driver's lookup of the target, under
\* the name the planner resolved, does not fail.
C28_DriverFindsPlannedTable ==
    (/\ call.sql.kind \in {"Update", "Insert", "Delete"}
     /\ call.new_table # <<>>
     /\ IsOk(call.new_table[1])) =>
        /\ name_convert(call.sql.names[1]) = ResolvedName(1)
        /\ IsOk(call.res)

\* The tables the statement of the call names, as the planner resolves them.
NamedTables == {ResolvedName(i) : i \in DOMAIN call.sql.names}

\* The catalog entry of the name is what it was before the call.
EntryUnchanged(name) ==
    IF name \in DOMAIN call.before
    THEN name \in DOMAIN catalog /\ catalog[name] = call.before[name]
    ELSE name \notin DOMAIN catalog

\* C29: a SELECT leaves the catalog as it was, and a CREATE, DROP, UPDATE,
\* INSERT or DELETE leaves every entry but those of the tables it names as
\* it was.
C29_OtherEntriesUnchanged ==
    call.n > 0 =>
        /\ call.sql.kind = "Query" => catalog = call.before
        /\ call.sql.kind \in {"CreateTable", "Drop", "Update", "Insert", "Delete"} =>
              \A name \in (DOMAIN catalog \cup DOMAIN call.before) \ NamedTables :
                  EntryUnchanged(name)

\* C30: every batch stored for a table has one column per field of the
\* table's schema, of the field's data type, and columns of equal length.
C30_StoredBatchesMatchSchema ==
    \A name \in DOMAIN catalog : \A b \in DOMAIN catalog[name].batches :
        MatchesSchema(catalog[name].batches[b], catalog[name].schema)

====
